---------------------------- MODULE Spec2Model ----------------------------
(***************************************************************************)
(* Download orchestration of the SocialMediaDownloaderBot.                 *)
(*                                                                         *)
(* The handlers of src/handlers/download.py and src/handlers/callbacks.py  *)
(* are coroutines of one event loop (bot.py builds the application with    *)
(* concurrent_updates(True)), so a handler runs atomically from one await  *)
(* to the next and handlers of the same owner interleave at their awaits.  *)
(* Each action below is one such segment.  The owner's rows of the         *)
(* database, the caches, the temporary directory and the coroutines in     *)
(* flight are the state.                                                   *)
(***************************************************************************)
EXTENDS Integers, Sequences, FiniteSets, TLC

(***************************************************************************)
(* Bounds of the model.                                                    *)
(***************************************************************************)
MaxDownloads == 2
MaxTasks == 2
MaxDay == 1
DailyQuota == 1
MaxUpdates == 4
MaxFieldLen == 3
MaxTokenId == 11
MaxFields == 4
MaxPct == 2
MaxReports == 3
MaxEntries == 3
MaxOptions == 2
KeyboardLimit == 8
UrlPrefix == 50

(***************************************************************************)
(* Optional values: <<>> is None, <<v>> is the value v.                    *)
(***************************************************************************)
None == <<>>
Some(v) == <<v>>
IsNone(o) == o = <<>>
Val(o) == o[1]

VARIABLES
    user,       \* the owner's row of table users
    today,      \* the UTC date the clock showed when it was last read
    downloads,  \* table downloads: the record with id i is downloads[i]
    tasks,      \* the handler coroutines in flight, one per slot
    redis,      \* the value of key video_info:<owner>, None when unset
    ctx,        \* ctx[i]: context.user_data["video_info_<i>"], None when unset
    files,      \* the files of the owner's temporary directory
    chat,       \* the callback buttons of the messages in the owner's chat
    updates,    \* the number of the owner's updates dispatched so far
    tok         \* the component a small specification studies: a button,
                \* a callback query, or the progress channel of one fetch

vars ==
    <<user, today, downloads, tasks, redis, ctx, files, chat, updates,
      tok>>
mainVars ==
    <<user, today, downloads, tasks, redis, ctx, files, chat, updates>>


(***************************************************************************)
(* Values.                                                                 *)
(***************************************************************************)
Kinds == {"video", "audio", "image"}
Ids == 1..MaxDownloads
Slots == 1..MaxTasks
Days == 0..MaxDay

\* One callback token of a keyboard the chat holds (the parsed form; the
\* wire form of a quality token is modelled by EncodeQuality below).
Token(stage, kind, id) == [stage |-> stage, kind |-> kind, id |-> id]

\* A file of the owner's temporary directory: the media file of download id
\* or a file the fetch wrote beside it (writethumbnail).
File(id, what) == [id |-> id, what |-> what]

\* A coroutine slot.  pc names the await the coroutine is suspended at.
\*   id      the Download it works on
\*   snap    download.status as held by the coroutine's session ("" = none)
\*   uflag   db_user.is_downloading as held by the session ("fresh" = expired,
\*           reloaded on the next access)
\*   ftype, quality   the format type and quality passed to the download
\*   vi      video_info, the local variable of handle_url
\*   size    the size of the fetched file, as os.path.getsize returned it
\*   via     the transport chosen for it
\*   reply, button    the answer being sent and the id on its cancel button
IdleTask ==
    [pc |-> "idle", id |-> 0, snap |-> "", uflag |-> "", ftype |-> "",
     quality |-> "", vi |-> None, size |-> <<0, 0>>,
     via |-> "", reply |-> "", button |-> 0]

IsFree(t) == tasks[t].pc = "idle"
\* A new coroutine takes the lowest free slot.
FreeSlot(t) == IsFree(t) /\ \A u \in Slots : u < t => ~IsFree(u)

\* The application dispatches one more update of the owner (a message or a
\* button press) to its handler.
Dispatch == updates < MaxUpdates /\ updates' = updates + 1

ExistingIds == 1..Len(downloads)

\* db.query(Download).filter(user_id == .., status == "processing")
ProcessingIds == {i \in ExistingIds : downloads[i].status = "processing"}

SetMax(S) == CHOOSE m \in S : \A x \in S : x <= m

SetMin(S) == CHOOSE m \in S : \A x \in S : m <= x

\* Variant: the oldest processing record instead of the most recent one.
ActiveDownload_Oldest == IF ProcessingIds = {} THEN 0 ELSE SetMin(ProcessingIds)

\* .order_by(Download.created_at.desc()).first(): ids grow with created_at.
ActiveDownload == IF ProcessingIds = {} THEN 0 ELSE SetMax(ProcessingIds)

(***************************************************************************)
(* handle_url up to its first await after the database was read.           *)
(***************************************************************************)
\* Daily quota reset if day changed.
NeedsQuotaReset(u, now) ==
    IsNone(u.last_quota_reset) \/ Val(u.last_quota_reset) < now

QuotaReset(u, now) ==
    IF NeedsQuotaReset(u, now)
    THEN [u EXCEPT !.used_quota = Some(0), !.last_quota_reset = Some(now)]
    ELSE u

\* Variant: the submission that reaches the ceiling is still let through.
QuotaExceeded_Strict(u) ==
    /\ ~IsNone(u.used_quota)
    /\ ~IsNone(u.daily_quota)
    /\ Val(u.used_quota) > Val(u.daily_quota)

\* Check daily quota.
QuotaExceeded(u) ==
    /\ ~IsNone(u.used_quota)
    /\ ~IsNone(u.daily_quota)
    /\ Val(u.used_quota) >= Val(u.daily_quota)

NewDownload == [status |-> "processing", error_message |-> ""]

\* The owner sends a URL of a supported platform (or presses Retry, which
\* calls handle_url with the URL rebuilt from the token).
\* now is the date of datetime.utcnow(): the clock does not run backwards.
HandleUrl_Unchecked(t, now) ==
    LET u1 == QuotaReset(user, now)
        cached == IF NeedsQuotaReset(user, now) THEN "fresh"
                  ELSE IF user.is_downloading THEN "T" ELSE "F"
    IN  /\ FreeSlot(t)
        /\ now >= today
        /\ today' = now
        /\ Dispatch
        /\ IF QuotaExceeded(u1)
           THEN /\ user' = u1
                /\ tasks' = [tasks EXCEPT ![t] =
                       [IdleTask EXCEPT !.pc = "reply", !.reply = "quota",
                                        !.uflag = cached]]
                /\ UNCHANGED downloads
           ELSE /\ Len(downloads) < MaxDownloads
                /\ user' = [u1 EXCEPT !.is_downloading = TRUE]
                /\ downloads' = Append(downloads, NewDownload)
                /\ tasks' = [tasks EXCEPT ![t] =
                       [IdleTask EXCEPT !.pc = "extract",
                                        !.id = Len(downloads) + 1,
                                        !.snap = "processing",
                                        !.uflag = "fresh"]]
        /\ UNCHANGED <<redis, ctx, files, chat, tok>>

HandleUrl(t, now) ==
    LET u1 == QuotaReset(user, now)
        cached == IF NeedsQuotaReset(user, now) THEN "fresh"
                  ELSE IF user.is_downloading THEN "T" ELSE "F"
    IN  /\ FreeSlot(t)
        /\ now >= today
        /\ today' = now
        /\ Dispatch
        /\ IF QuotaExceeded(u1)
           THEN /\ user' = u1
                /\ tasks' = [tasks EXCEPT ![t] =
                       [IdleTask EXCEPT !.pc = "reply", !.reply = "quota",
                                        !.uflag = cached]]
                /\ UNCHANGED downloads
           ELSE IF u1.is_downloading
           THEN /\ user' = u1
                /\ tasks' = [tasks EXCEPT ![t] =
                       [IdleTask EXCEPT !.pc = "reply", !.reply = "busy",
                                        !.button = ActiveDownload,
                                        !.uflag = cached]]
                /\ UNCHANGED downloads
           ELSE /\ Len(downloads) < MaxDownloads
                /\ user' = [u1 EXCEPT !.is_downloading = TRUE]
                /\ downloads' = Append(downloads, NewDownload)
                /\ tasks' = [tasks EXCEPT ![t] =
                       [IdleTask EXCEPT !.pc = "extract",
                                        !.id = Len(downloads) + 1,
                                        !.snap = "processing",
                                        !.uflag = "fresh"]]
        /\ UNCHANGED <<redis, ctx, files, chat, tok>>

\* The tests of handle_url that come before the quota: the URL matches none
\* of the platform patterns, it does not match the basic URL pattern
\* (http:// or https:// and one more character), or the sender has no row
\* in the users table.
Rejection(supported, wellformed, registered) ==
    IF ~supported THEN "unsupported"
    ELSE IF ~wellformed THEN "invalid"
    ELSE IF ~registered THEN "unregistered"
    ELSE ""

\* Variant: the rejecting branch opens a record all the same.
HandleUrlRejected_Records(t, supported, wellformed, registered) ==
    /\ FreeSlot(t)
    /\ Rejection(supported, wellformed, registered) # ""
    /\ Dispatch
    /\ Len(downloads) < MaxDownloads
    /\ downloads' = Append(downloads, NewDownload)
    /\ tasks' = [tasks EXCEPT ![t] =
           [IdleTask EXCEPT !.pc = "rejectmsg",
                            !.reply = Rejection(supported, wellformed,
                                                registered)]]
    /\ UNCHANGED <<user, today, redis, ctx, files, chat, tok>>

\* handle_url on a message it rejects before the quota check, up to the
\* await of its answer.
HandleUrlRejected(t, supported, wellformed, registered) ==
    /\ FreeSlot(t)
    /\ Rejection(supported, wellformed, registered) # ""
    /\ Dispatch
    /\ tasks' = [tasks EXCEPT ![t] =
           [IdleTask EXCEPT !.pc = "rejectmsg",
                            !.reply = Rejection(supported, wellformed,
                                                registered)]]
    /\ UNCHANGED <<user, today, downloads, redis, ctx, files, chat, tok>>

\* The answer was sent, or sending it raised: the first two answers are
\* sent outside the try block, and the except block entered from the third
\* finds db_user None and writes nothing.
RejectReturn(t) ==
    /\ tasks[t].pc = "rejectmsg"
    /\ tasks' = [tasks EXCEPT ![t] = IdleTask]
    /\ UNCHANGED <<user, today, downloads, redis, ctx, files, chat,
                   updates, tok>>

Submit == \E t \in Slots, now \in Days : HandleUrl(t, now)

\* The owner presses Retry: handle_url is called with the URL rebuilt from the
\* token.
Retry(t, now, id) ==
    /\ Token("retry", "", id) \in chat
    /\ HandleUrl(t, now)

(***************************************************************************)
(* VideoDownloader.get_video_info: what the extraction oracle returned,    *)
(* reduced to what the classification reads.                               *)
(*   youtube    "youtube" in the extractor name                            *)
(*   vcodec, acodec   the top-level codec fields are present, not "none"   *)
(*   nvideo     renditions with a video codec and a distinct height        *)
(*   naudio     audio-only renditions with a distinct positive bitrate     *)
(*   nimage     renditions and direct URL with an image extension          *)
(*   direct     info has a url or a formats list                           *)
(*   thumbnail  info has a thumbnail                                       *)
(***************************************************************************)
Raw(yt, vc, ac, nv, na, ni, dr, th) ==
    [youtube |-> yt, vcodec |-> vc, acodec |-> ac, nvideo |-> nv,
     naudio |-> na, nimage |-> ni, direct |-> dr, thumbnail |-> th]

\* The oracle results the model draws from.
RawInfos ==
    { Raw(FALSE, TRUE, TRUE, 2, 1, 0, TRUE, FALSE),   \* video and audio
      Raw(TRUE, FALSE, FALSE, 0, 0, 0, FALSE, TRUE),  \* metadata, no rendition
      Raw(FALSE, FALSE, FALSE, 0, 0, 1, TRUE, TRUE) } \* a still image

Min(a, b) == IF a < b THEN a ELSE b

\* Variant: no option is synthesized when the lists are empty.
GetVideoInfo_NoBest(raw) ==
    LET urls0 == IF raw.youtube THEN 0 ELSE raw.nimage
        urls1 == IF ~raw.vcodec /\ ~raw.acodec /\ raw.thumbnail /\ ~raw.youtube
                    /\ urls0 = 0
                 THEN 1 ELSE urls0
        extra == raw.nvideo = 0 /\ raw.naudio = 0 /\ ~raw.youtube
                 /\ raw.thumbnail
    IN  [video |-> Min(raw.nvideo, 8), audio |-> Min(raw.naudio, 8),
         image |-> (IF extra THEN 1 ELSE 0)
                   + Min(IF extra THEN urls1 + 1 ELSE urls1, 5),
         thumbnail |-> raw.thumbnail]

\* The number of entries of video_formats, audio_formats and image_formats
\* of the returned dictionary, and its thumbnail.
GetVideoInfo(raw) ==
    LET has_video == raw.vcodec
        has_audio == raw.acodec
        urls0 == IF raw.youtube THEN 0 ELSE raw.nimage
        \* thumbnail as fallback for image posts (but not for YouTube)
        urls1 == IF ~has_video /\ ~has_audio /\ raw.thumbnail /\ ~raw.youtube
                    /\ urls0 = 0
                 THEN 1 ELSE urls0
        is_image == urls1 > 0
        \* always provide options even if no specific formats found
        v1 == IF raw.nvideo = 0 /\ has_video THEN 1 ELSE raw.nvideo
        a1 == IF raw.naudio = 0 /\ has_audio THEN 1 ELSE raw.naudio
        fallback == v1 = 0 /\ a1 = 0 /\ ~is_image /\ raw.direct
        v2 == IF fallback /\ has_video THEN v1 + 1 ELSE v1
        a2 == IF fallback /\ has_audio THEN a1 + 1 ELSE a1
        \* extra fallback: nothing detected but a thumbnail, not YouTube
        extra == v2 = 0 /\ a2 = 0 /\ ~raw.youtube /\ raw.thumbnail
        urls2 == IF extra THEN urls1 + 1 ELSE urls1
        i0 == IF extra THEN 1 ELSE 0
    IN  [video |-> Min(v2, 8), audio |-> Min(a2, 8),
         image |-> i0 + Min(urls2, 5), thumbnail |-> raw.thumbnail]

NFormats(vi, kind) ==
    IF kind = "video" THEN vi.video
    ELSE IF kind = "audio" THEN vi.audio
    ELSE IF kind = "image" THEN vi.image
    ELSE 0

\* The kinds the type keyboard of handle_url offers.
TypeKeyboard(vi) == {k \in Kinds : NFormats(vi, k) > 0}

\* redis_client.get_video_info(user_id), else context.user_data of the
\* download: the info the handler gets, None when neither has one.
LookupInfo(id, r, c) == IF ~IsNone(r) THEN r ELSE c[id]

\* An assignment to download.status followed by db.commit(): the ORM writes
\* the column when the value differs from the one the session holds.
WriteStatus(d, snap, status) ==
    [d EXCEPT !.status = IF snap = status THEN @ ELSE status]

\* download.status = "failed"; download.error_message = error; db.commit()
Fail(d, snap, error) ==
    [WriteStatus(d, snap, "failed") EXCEPT !.error_message = error]

\* download.status = "completed"; ...; db.commit()
Complete(d, snap) == WriteStatus(d, snap, "completed")

(***************************************************************************)
(* download_and_send_video.                                                *)
(***************************************************************************)
\* The finally block: used_quota is incremented when download.status reads
\* "completed", and is_downloading is cleared.
IncQuota(u) ==
    [u EXCEPT !.used_quota =
        IF IsNone(@) THEN Some(1) ELSE Some(Val(@) + 1)]

ReleaseUser(u, status) ==
    [(IF status = "completed" THEN IncQuota(u) ELSE u)
        EXCEPT !.is_downloading = FALSE]

\* The coroutine of slot t enters download_and_send_video(download_id = id,
\* format_type, quality) and runs to its first await that follows a read of
\* shared state.  u is the owner's row as the caller left it and cached the
\* video_info the lookup returned.
StartDownload(t, id, ftype, quality, u, cached) ==
    IF id \notin ExistingIds
    THEN \* if not download: return, then the finally block
         /\ tasks' = [tasks EXCEPT ![t] = IdleTask]
         /\ user' = ReleaseUser(u, "")
    ELSE IF IsNone(cached)
    THEN \* Session expired. Please send the link again.
         /\ tasks' = [tasks EXCEPT ![t] =
                [IdleTask EXCEPT !.pc = "expired", !.id = id,
                                 !.snap = downloads[id].status]]
         /\ user' = u
    ELSE IF ftype = "image" /\ NFormats(Val(cached), "image") = 0
    THEN \* Image URL not found
         /\ tasks' = [tasks EXCEPT ![t] =
                [IdleTask EXCEPT !.pc = "noimage", !.id = id,
                                 !.snap = downloads[id].status]]
         /\ user' = u
    ELSE /\ tasks' = [tasks EXCEPT ![t] =
                [IdleTask EXCEPT !.pc = "fetch", !.id = id,
                                 !.snap = downloads[id].status,
                                 !.ftype = ftype, !.quality = quality]]
         /\ user' = u

(***************************************************************************)
(* handle_url after the extraction returned.                               *)
(***************************************************************************)
\* Variant: the stored preference is ignored.
PreferredFormat_Video(u) == "video"

\* preferred_format = db_user.preferred_format or "video"
PreferredFormat(u) ==
    IF IsNone(u.preferred_format) THEN "video" ELSE Val(u.preferred_format)

\* get_video_info returned None: the record fails, the slot is released and
\* a Retry button is sent.
ExtractFailed(t) ==
    LET id == tasks[t].id
    IN  /\ tasks[t].pc = "extract"
        /\ downloads' = [downloads EXCEPT ![id] =
               Fail(@, tasks[t].snap, "Failed to extract video information")]
        /\ user' = [user EXCEPT !.is_downloading = FALSE]
        /\ tasks' = [tasks EXCEPT ![t] =
               [@ EXCEPT !.pc = "reply", !.reply = "retry", !.snap = "fresh",
                         !.uflag = "fresh"]]
        /\ UNCHANGED <<today, redis, ctx, files, chat, updates, tok>>

\* get_video_info returned a dictionary: it is cached and the type keyboard
\* is sent; with no type to offer the download starts at once.
ExtractOk(t, raw) ==
    LET id == tasks[t].id
        vi == GetVideoInfo(raw)
    IN  /\ tasks[t].pc = "extract"
        /\ redis' = Some(vi)
        /\ ctx' = [ctx EXCEPT ![id] = Some(vi)]
        /\ tasks' = [tasks EXCEPT ![t] =
               [@ EXCEPT !.pc = "reply", !.vi = Some(vi),
                         !.reply = IF TypeKeyboard(vi) = {} THEN "starting"
                                   ELSE "types",
                         !.snap = "fresh", !.uflag = "fresh"]]
        /\ UNCHANGED <<user, today, downloads, files, chat, updates, tok>>

ExtractDone ==
    \E t \in Slots : ExtractFailed(t) \/ \E raw \in RawInfos : ExtractOk(t, raw)

\* The answer of handle_url reached the chat: its buttons become pressable.
\* With no type to offer, handle_url goes on into download_and_send_video
\* with the owner's preferred format.
ReplyTokens(t) ==
    LET r == tasks[t].reply
        id == tasks[t].id
    IN  IF r = "busy" /\ tasks[t].button # 0
        THEN {Token("cancel", "", tasks[t].button)}
        ELSE IF r = "retry" THEN {Token("retry", "", id)}
        ELSE IF r = "types"
        THEN {Token("type", k, id) : k \in TypeKeyboard(Val(tasks[t].vi))}
        ELSE {}

ReplyDelivered(t) ==
    /\ tasks[t].pc = "reply"
    /\ chat' = chat \cup ReplyTokens(t)
    /\ IF tasks[t].reply = "starting"
       THEN StartDownload(t, tasks[t].id, PreferredFormat(user), "best",
                          user, LookupInfo(tasks[t].id, redis, ctx))
       ELSE /\ tasks' = [tasks EXCEPT ![t] = IdleTask]
            /\ UNCHANGED user
    /\ UNCHANGED <<today, downloads, redis, ctx, files, updates, tok>>

\* Whether the await the coroutine is suspended at can raise: the answers
\* sent with reply_text and edit_text can; the info message sent as a photo
\* (when the info has a thumbnail) falls back to safe_edit_message, which
\* raises nothing.
ReplyCanRaise(t) ==
    IF tasks[t].reply \in {"types", "starting"}
    THEN ~Val(tasks[t].vi).thumbnail
    ELSE TRUE

\* The await raised: the except block of handle_url sends its error message.
ReplyRaises(t) ==
    /\ tasks[t].pc = "reply"
    /\ ReplyCanRaise(t)
    /\ tasks' = [tasks EXCEPT ![t] = [@ EXCEPT !.pc = "except"]]
    /\ UNCHANGED <<user, today, downloads, redis, ctx, files, chat,
                   updates, tok>>

\* db_user.is_downloading as the except block of handle_url reads it.
ReadFlag(t) ==
    IF tasks[t].uflag = "fresh" THEN user.is_downloading
    ELSE tasks[t].uflag = "T"

\* The except block of handle_url after its error message: the flag is
\* cleared when the owner has no processing record.
HandleUrlExcept(t) ==
    /\ tasks[t].pc = "except"
    /\ user' = IF ProcessingIds = {} /\ ReadFlag(t)
               THEN [user EXCEPT !.is_downloading = FALSE]
               ELSE user
    /\ tasks' = [tasks EXCEPT ![t] = IdleTask]
    /\ UNCHANGED <<today, downloads, redis, ctx, files, chat, updates,
                   tok>>

Reply ==
    \E t \in Slots : ReplyDelivered(t) \/ ReplyRaises(t) \/ HandleUrlExcept(t)

(***************************************************************************)
(* download_and_send_video from the fetch to the finally block.            *)
(***************************************************************************)
\* File sizes are counted in bytes and pass 2^31: a size is <<m, r>>, m MiB
\* plus r bytes with r < 2^20.
SizeGT(a, b) == a[1] > b[1] \/ (a[1] = b[1] /\ a[2] > b[2])

\* bot_api_limit = 50 * 1024 * 1024
bot_api_limit == <<50, 0>>
\* telethon_limit = 2 * 1024 * 1024 * 1024
telethon_limit == <<2048, 0>>

\* The sizes the fetched file is drawn from.
Sizes == {<<50, 0>>, <<50, 1>>, <<2000, 1>>, <<2048, 1>>}

\* if file_size > bot_api_limit: if file_size > telethon_limit: ... return
Route(size) ==
    IF SizeGT(size, bot_api_limit)
    THEN IF SizeGT(size, telethon_limit) THEN "toolarge" ELSE "relay"
    ELSE "direct"

\* The finally block of download_and_send_video, ending the coroutine.
\* snap is download.status as the session holds it at that point and dl the
\* table after the segment's own writes.
Finally(t, snap, dl) ==
    LET status == IF snap = "fresh" THEN dl[tasks[t].id].status ELSE snap
    IN  /\ user' = ReleaseUser(user, status)
        /\ tasks' = [tasks EXCEPT ![t] = IdleTask]

\* VideoDownloader.cleanup_user_files: every file of the owner's directory.
CleanupUserFiles(fs) == {}

MediaFile(t) == File(tasks[t].id, "media")

\* "Session expired" or "Image URL not found" was answered: the latter fails
\* the record; return.
EarlyReturn(t) ==
    /\ tasks[t].pc \in {"expired", "noimage"}
    /\ downloads' = IF tasks[t].pc = "noimage"
                    THEN [downloads EXCEPT ![tasks[t].id] =
                             Fail(@, tasks[t].snap, "Image URL not found")]
                    ELSE downloads
    /\ Finally(t, IF tasks[t].pc = "noimage" THEN "fresh" ELSE tasks[t].snap,
               downloads')
    /\ UNCHANGED <<today, redis, ctx, files, chat, updates, tok>>

\* The worker returned no file: the record fails and the error is shown.
FetchFailed(t) ==
    /\ tasks[t].pc = "fetch"
    /\ downloads' = [downloads EXCEPT ![tasks[t].id] =
           Fail(@, tasks[t].snap, "Download failed")]
    /\ tasks' = [tasks EXCEPT ![t] = [@ EXCEPT !.pc = "failmsg",
                                               !.snap = "fresh"]]
    /\ UNCHANGED <<user, today, redis, ctx, files, chat, updates, tok>>

\* The error was shown: cleanup_user_files, return.
FailMsgDone(t) ==
    /\ tasks[t].pc = "failmsg"
    /\ files' = CleanupUserFiles(files)
    /\ Finally(t, tasks[t].snap, downloads)
    /\ UNCHANGED <<today, downloads, redis, ctx, chat, updates, tok>>

\* The worker returned a file; side tells whether the fetch left the
\* thumbnail it wrote (writethumbnail) beside it: the post-processors of a
\* video are platform dependent and only some embed and delete it.
FetchOk(t, side) ==
    /\ tasks[t].pc = "fetch"
    /\ side => tasks[t].ftype = "video"
    /\ files' = files \cup {MediaFile(t)}
                      \cup (IF side THEN {File(tasks[t].id, "side")} ELSE {})
    /\ tasks' = [tasks EXCEPT ![t] = [@ EXCEPT !.pc = "fetched"]]
    /\ UNCHANGED <<user, today, downloads, redis, ctx, chat,
                   updates, tok>>

\* The coroutine goes on to the await of the transport: with open(file_path)
\* for the Bot API; upload_file reports a missing file as a failed upload.
ToTransport(t, via) ==
    IF via = "direct" /\ MediaFile(t) \notin files
    THEN [tasks[t] EXCEPT !.pc = "errmsg"]
    ELSE [tasks[t] EXCEPT !.pc = IF via = "direct" THEN "send" ELSE "upload"]

\* "Uploading..." was shown: os.path.getsize(file_path), the choice of the
\* transport.
Routed(t, size) ==
    /\ tasks[t].pc = "fetched"
    /\ tasks' = [tasks EXCEPT ![t] =
           LET via == Route(size)
           IN  IF MediaFile(t) \notin files
               THEN [@ EXCEPT !.pc = "errmsg"]
               ELSE IF via = "toolarge"
               THEN [@ EXCEPT !.pc = "toolarge", !.size = size, !.via = via]
               ELSE [ToTransport(t, via) EXCEPT !.size = size, !.via = via]]
    /\ UNCHANGED <<user, today, downloads, redis, ctx, files, chat,
                   updates, tok>>

\* "File too large" was shown: os.remove(file_path), the record fails.
TooLargeDone(t) ==
    /\ tasks[t].pc = "toolarge"
    /\ files' = files \ {MediaFile(t)}
    /\ downloads' = [downloads EXCEPT ![tasks[t].id] =
           Fail(@, tasks[t].snap, "File too large")]
    /\ Finally(t, "fresh", downloads')
    /\ UNCHANGED <<today, redis, ctx, chat, updates, tok>>

\* The media message reached the owner's chat; a video carries the
\* Convert to Audio button.
Deliver(c, t) ==
    IF tasks[t].ftype = "video"
    THEN c \cup {Token("convert", "", tasks[t].id)}
    ELSE c

\* send_video / send_audio / send_photo returned the sent message.
SendOk(t) ==
    /\ tasks[t].pc = "send"
    /\ chat' = Deliver(chat, t)
    /\ downloads' = [downloads EXCEPT ![tasks[t].id] =
           Complete(@, tasks[t].snap)]
    /\ tasks' = [tasks EXCEPT ![t] = [@ EXCEPT !.pc = "donemsg",
                                               !.snap = "fresh"]]
    /\ UNCHANGED <<user, today, redis, ctx, files, updates, tok>>

\* The Bot API send raised: the except block answers with an error message.
SendRaises(t) ==
    /\ tasks[t].pc = "send"
    /\ tasks' = [tasks EXCEPT ![t] = [@ EXCEPT !.pc = "errmsg"]]
    /\ UNCHANGED <<user, today, downloads, redis, ctx, files, chat,
                   updates, tok>>

\* telethon_uploader.upload_file stored the file in the storage channel.
UploadOk(t) ==
    /\ tasks[t].pc = "upload"
    /\ MediaFile(t) \in files
    /\ tasks' = [tasks EXCEPT ![t] = [@ EXCEPT !.pc = "copy"]]
    /\ UNCHANGED <<user, today, downloads, redis, ctx, files, chat,
                   updates, tok>>

\* upload_file returned no message id.
UploadFailed(t) ==
    /\ tasks[t].pc = "upload"
    /\ tasks' = [tasks EXCEPT ![t] = [@ EXCEPT !.pc = "relayfail"]]
    /\ UNCHANGED <<user, today, downloads, redis, ctx, files, chat,
                   updates, tok>>

\* copy_message put the stored message into the owner's chat.
CopyOk(t) ==
    /\ tasks[t].pc = "copy"
    /\ chat' = Deliver(chat, t)
    /\ downloads' = [downloads EXCEPT ![tasks[t].id] =
           Complete(@, tasks[t].snap)]
    /\ tasks' = [tasks EXCEPT ![t] = [@ EXCEPT !.pc = "donemsg",
                                               !.snap = "fresh"]]
    /\ UNCHANGED <<user, today, redis, ctx, files, updates, tok>>

\* copy_message raised.
CopyRaises(t) ==
    /\ tasks[t].pc = "copy"
    /\ tasks' = [tasks EXCEPT ![t] = [@ EXCEPT !.pc = "relayfail"]]
    /\ UNCHANGED <<user, today, downloads, redis, ctx, files, chat,
                   updates, tok>>

\* The relay failure was shown: the record fails, cleanup_user_files.
RelayFailDone(t) ==
    /\ tasks[t].pc = "relayfail"
    /\ downloads' = [downloads EXCEPT ![tasks[t].id] =
           Fail(@, tasks[t].snap, "Telethon upload failed")]
    /\ files' = CleanupUserFiles(files)
    /\ Finally(t, "fresh", downloads')
    /\ UNCHANGED <<today, redis, ctx, chat, updates, tok>>

\* "Downloaded Successfully" was shown: cleanup_user_files, the cached info
\* is deleted from Redis and from the context.
DoneMsgDone(t) ==
    /\ tasks[t].pc = "donemsg"
    /\ files' = CleanupUserFiles(files)
    /\ redis' = None
    /\ ctx' = [ctx EXCEPT ![tasks[t].id] = None]
    /\ Finally(t, tasks[t].snap, downloads)
    /\ UNCHANGED <<today, downloads, chat, updates, tok>>

\* The error message of the except block was sent.
ErrMsgDone(t) ==
    /\ tasks[t].pc = "errmsg"
    /\ Finally(t, tasks[t].snap, downloads)
    /\ UNCHANGED <<today, downloads, redis, ctx, files, chat,
                   updates, tok>>

Download ==
    \E t \in Slots :
        \/ EarlyReturn(t)
        \/ FetchFailed(t)
        \/ FailMsgDone(t)
        \/ \E side \in BOOLEAN : FetchOk(t, side)
        \/ \E size \in Sizes : Routed(t, size)
        \/ TooLargeDone(t)
        \/ SendOk(t)
        \/ SendRaises(t)
        \/ UploadOk(t)
        \/ UploadFailed(t)
        \/ CopyOk(t)
        \/ CopyRaises(t)
        \/ RelayFailDone(t)
        \/ DoneMsgDone(t)
        \/ ErrMsgDone(t)

(***************************************************************************)
(* handle_quality_selection: the callback buttons.                         *)
(***************************************************************************)
Pressable(stage, kind, id) == Token(stage, kind, id) \in chat

\* type_<kind>_<id>: the quality keyboard of the cached info is shown.
TypeSelect(kind, id) ==
    LET cached == LookupInfo(id, redis, ctx)
    IN  /\ Pressable("type", kind, id)
        /\ Dispatch
        /\ chat' = IF ~IsNone(cached) /\ NFormats(Val(cached), kind) > 0
                   THEN chat \cup
                            {Token("quality", kind, id), Token("back", "", id)}
                   ELSE chat
        /\ UNCHANGED <<user, today, downloads, tasks, redis, ctx,
                       files, tok>>

\* back_to_type_<id>: the type keyboard is rebuilt from the cached info.
BackToType(id) ==
    LET cached == LookupInfo(id, redis, ctx)
    IN  /\ Pressable("back", "", id)
        /\ Dispatch
        /\ chat' = IF ~IsNone(cached)
                   THEN chat \cup {Token("type", k, id) :
                                        k \in TypeKeyboard(Val(cached))}
                   ELSE chat
        /\ UNCHANGED <<user, today, downloads, tasks, redis, ctx,
                       files, tok>>

\* quality_<kind>_<label>_<format-id>_<id>: the download starts.
QualitySelect(t, kind, id) ==
    /\ Pressable("quality", kind, id)
    /\ FreeSlot(t)
    /\ Dispatch
    /\ StartDownload(t, id, kind, "label", user, LookupInfo(id, redis, ctx))
    /\ UNCHANGED <<today, downloads, redis, ctx, files, chat, tok>>

\* cancel_processing_<id>
Cancel_Any(id) ==
    /\ Pressable("cancel", "", id)
    /\ Dispatch
    /\ IF id \in ExistingIds
       THEN /\ downloads' = [downloads EXCEPT ![id] =
                   [@ EXCEPT !.status = "failed",
                             !.error_message = "Cancelled by user"]]
            /\ user' = [user EXCEPT !.is_downloading = FALSE]
       ELSE UNCHANGED <<downloads, user>>
    /\ UNCHANGED <<today, tasks, redis, ctx, files, chat, tok>>

\* Variant: the record is failed and the flag is left as it is.
Cancel_KeepFlag(id) ==
    /\ Pressable("cancel", "", id)
    /\ Dispatch
    /\ IF id \in ExistingIds /\ downloads[id].status = "processing"
       THEN downloads' = [downloads EXCEPT ![id] =
                [@ EXCEPT !.status = "failed",
                          !.error_message = "Cancelled by user"]]
       ELSE UNCHANGED downloads
    /\ UNCHANGED <<user, today, tasks, redis, ctx, files, chat, tok>>

Cancel(id) ==
    /\ Pressable("cancel", "", id)
    /\ Dispatch
    /\ IF id \in ExistingIds /\ downloads[id].status = "processing"
       THEN /\ downloads' = [downloads EXCEPT ![id] =
                   [@ EXCEPT !.status = "failed",
                             !.error_message = "Cancelled by user"]]
            /\ user' = [user EXCEPT !.is_downloading = FALSE]
       ELSE UNCHANGED <<downloads, user>>
    /\ UNCHANGED <<today, tasks, redis, ctx, files, chat, tok>>

\* convert_audio_<id>: the record's URL is extracted again.
ConvertAudio(t, id) ==
    /\ Pressable("convert", "", id)
    /\ FreeSlot(t)
    /\ Dispatch
    /\ id \in ExistingIds
    /\ tasks' = [tasks EXCEPT ![t] =
           [IdleTask EXCEPT !.pc = "cextract", !.id = id]]
    /\ UNCHANGED <<user, today, downloads, redis, ctx, files, chat, tok>>

\* Failed to fetch video info.
ConvertExtractFailed(t) ==
    /\ tasks[t].pc = "cextract"
    /\ tasks' = [tasks EXCEPT ![t] = IdleTask]
    /\ UNCHANGED <<user, today, downloads, redis, ctx, files, chat,
                   updates, tok>>

\* The info is cached and download_and_send_video(id, "audio", "Best",
\* "bestaudio") is entered.
ConvertExtractOk(t, raw) ==
    LET id == tasks[t].id
    IN  /\ tasks[t].pc = "cextract"
        /\ redis' = Some(GetVideoInfo(raw))
        /\ ctx' = [ctx EXCEPT ![id] = redis']
        /\ StartDownload(t, id, "audio", "Best", user, redis')
        /\ UNCHANGED <<today, downloads, files, chat, updates, tok>>

Callback ==
    \/ \E t \in Slots, now \in Days, id \in Ids : Retry(t, now, id)
    \/ \E k \in Kinds, id \in Ids : TypeSelect(k, id)
    \/ \E id \in Ids : BackToType(id)
    \/ \E t \in Slots, k \in Kinds, id \in Ids : QualitySelect(t, k, id)
    \/ \E id \in Ids : Cancel(id)
    \/ \E t \in Slots, id \in Ids : ConvertAudio(t, id)
    \/ \E t \in Slots : ConvertExtractFailed(t)
    \/ \E t \in Slots, raw \in RawInfos : ConvertExtractOk(t, raw)

(***************************************************************************)
(* The callback_data of a quality button.  A string is a sequence of       *)
(* pieces: the separator "_" or a piece that holds no separator.           *)
(***************************************************************************)
Sep == "_"
DigitChars == <<"0", "1", "2", "3", "4", "5", "6", "7", "8", "9">>

\* str(n) of an f-string
RECURSIVE ToStr(_)
ToStr(n) ==
    IF n < 10 THEN <<DigitChars[n + 1]>>
    ELSE ToStr(n \div 10) \o <<DigitChars[(n % 10) + 1]>>

IsDigit(c) == \E d \in 1..10 : DigitChars[d] = c
DigitValue(c) == (CHOOSE d \in 1..10 : DigitChars[d] = c) - 1

\* int(s): None when it raises ValueError
RECURSIVE ParseInt(_)
ParseInt(str) ==
    IF str = <<>> \/ \E k \in 1..Len(str) : ~IsDigit(str[k]) THEN None
    ELSE IF Len(str) = 1 THEN Some(DigitValue(str[1]))
    ELSE Some(Val(ParseInt(SubSeq(str, 1, Len(str) - 1))) * 10
              + DigitValue(str[Len(str)]))

\* s.split("_")
RECURSIVE Split(_)
Split(str) ==
    IF \A k \in 1..Len(str) : str[k] # Sep THEN <<str>>
    ELSE LET k == CHOOSE j \in 1..Len(str) :
                      str[j] = Sep /\ \A h \in 1..(j - 1) : str[h] # Sep
         IN  <<SubSeq(str, 1, k - 1)>> \o Split(SubSeq(str, k + 1, Len(str)))

\* "_".join(parts)
RECURSIVE Join(_)
Join(parts) ==
    IF parts = <<>> THEN <<>>
    ELSE IF Len(parts) = 1 THEN parts[1]
    ELSE parts[1] \o <<Sep>> \o Join(Tail(parts))

\* f"quality_{format_type}_{fmt['quality']}_{format_id}_{download_id}"; the
\* Auto button has the label "best" and the format id "none".
EncodeQuality(kind, quality, format_id, id) ==
    Join(<<(<<"quality">>), (<<kind>>), quality,
           IF IsNone(format_id) THEN <<"none">> ELSE Val(format_id),
           ToStr(id)>>)

\* The quality branch of handle_quality_selection up to the parsed fields.
DecodeQuality(data) ==
    LET callback_data == Split(data)
        n == Len(callback_data)
        invalid == [ok |-> FALSE, kind |-> <<>>, quality |-> <<>>,
                    format_id |-> None, id |-> 0]
    IN  IF n < 5 THEN invalid
        ELSE IF IsNone(ParseInt(callback_data[n])) THEN invalid
        ELSE [ok |-> TRUE,
              kind |-> callback_data[2],
              quality |-> IF n > 4 THEN Join(SubSeq(callback_data, 3, n - 2))
                          ELSE callback_data[3],
              format_id |-> IF callback_data[n - 1] = <<"none">> THEN None
                            ELSE Some(callback_data[n - 1]),
              id |-> Val(ParseInt(callback_data[n]))]

\* The strings of up to MaxFieldLen pieces, "a" standing for any run of
\* characters other than the separator.
RECURSIVE StringsUpTo(_)
StringsUpTo(n) ==
    IF n = 0 THEN {<<>>}
    ELSE StringsUpTo(n - 1) \cup
         {Append(str, c) : str \in StringsUpTo(n - 1), c \in {"a", Sep}}

\* The labels get_video_info builds ("HD (720p)", "Low (128kbps)", "Best",
\* "Original") hold no separator.
Labels ==
    {str \in StringsUpTo(MaxFieldLen) :
         str # <<>> /\ \A k \in 1..Len(str) : str[k] # Sep}

\* fmt["format_id"] is the extractor's own name of the rendition ("18",
\* "hls_mp3_128", "dash_sd_src"); the Auto button has none.
FormatIds ==
    {None} \cup
    {Some(str) : str \in {x \in StringsUpTo(MaxFieldLen) :
                              x # <<>> /\ x[1] # Sep /\ x[Len(x)] # Sep}}
TokenIds == 1..MaxTokenId

NoToken ==
    [stage |-> "none", kind |-> "", quality |-> <<>>, format_id |-> None,
     id |-> 0, data |-> <<>>, parsed |-> DecodeQuality(<<>>)]

\* The quality keyboard is built: one button of it.
BuildButton(kind, quality, format_id, id) ==
    /\ tok.stage = "none"
    /\ tok' = [stage |-> "sent", kind |-> kind, quality |-> quality,
               format_id |-> format_id, id |-> id,
               data |-> EncodeQuality(kind, quality, format_id, id),
               parsed |-> DecodeQuality(<<>>)]
    /\ UNCHANGED mainVars

\* The button is pressed: handle_quality_selection parses query.data.
PressButton ==
    /\ tok.stage = "sent"
    /\ tok' = [tok EXCEPT !.stage = "parsed", !.parsed = DecodeQuality(tok.data)]
    /\ UNCHANGED mainVars

(***************************************************************************)
(* The Retry button: handle_url builds its callback_data from the URL      *)
(* whose extraction failed, the retry branch of handle_quality_selection   *)
(* rebuilds a URL from it.                                                 *)
(***************************************************************************)
\* platform_prefix of the five id patterns of handle_url.
Platforms == {"yt", "ig", "tt", "fb", "sc"}

\* The ids the patterns capture ([a-zA-Z0-9_-]+ and the like): they may
\* hold the separator.
MediaIds == StringsUpTo(MaxFieldLen) \ {<<>>}

\* A URL as the pair of the platform and the media id it names.
Url(platform, id) == [platform |-> platform, id |-> id]

\* context.user_data["retry_url_<user>"]: absent, or the URL an earlier
\* failure without an extractable id left there.
StoredUrls == {None, Some(Url("other", <<"a">>))}

\* callback_data = f"retry_{platform_prefix}_{video_id}"
EncodeRetry(platform, id) == Join(<<(<<"retry">>), (<<platform>>), id>>)

\* The retry branch up to the URL handed to handle_url; None is the
\* "Session expired" answer.
DecodeRetry(data, stored) ==
    LET callback_data == Split(data)
        n == Len(callback_data)
        retry_type == IF n > 1 THEN callback_data[2] ELSE <<>>
    IN  IF retry_type = <<"yt">> /\ n >= 3
        THEN Some(Url("yt", callback_data[3]))
        ELSE IF retry_type = <<"ig">> /\ n >= 3
        THEN Some(Url("ig", callback_data[3]))
        ELSE stored

NoRetry ==
    [stage |-> "none", platform |-> "", id |-> <<>>, stored |-> None,
     data |-> <<>>, url |-> None]

\* The extraction of a URL of the platform failed: the Retry button is sent.
IssueRetry(platform, id, stored) ==
    /\ tok.stage = "none"
    /\ tok' = [stage |-> "sent", platform |-> platform, id |-> id,
               stored |-> stored, data |-> EncodeRetry(platform, id),
               url |-> None]
    /\ UNCHANGED mainVars

\* The Retry button is pressed.
PressRetry ==
    /\ tok.stage = "sent"
    /\ tok' = [tok EXCEPT !.stage = "parsed",
                          !.url = DecodeRetry(tok.data, tok.stored)]
    /\ UNCHANGED mainVars

(***************************************************************************)
(* The dispatch of handle_quality_selection on query.data.                 *)
(***************************************************************************)
\* int(field) raises ValueError
NotInt(field) == IsNone(ParseInt(field))

\* What the handler does with query.data up to the branch it takes:
\*   "type", "quality", "retry", "cancel", "back", "convert"  the branch
\*            goes on with the parsed fields;
\*   "invalid"  an invalid-selection answer, nothing else;
\*   "raise"    an exception leaves the handler;
\*   "none"     no branch matches: the handler returns without an answer
\*              of its own.
HandleCallback(data) ==
    LET callback_data == Split(data)
        n == Len(callback_data)
        action == callback_data[1]
    IN  IF action = <<"type">>
        THEN IF n < 3 THEN "invalid"
             ELSE IF NotInt(callback_data[3]) THEN "raise"
             ELSE "type"
        ELSE IF action = <<"quality">>
        THEN IF DecodeQuality(data).ok THEN "quality" ELSE "invalid"
        ELSE IF action = <<"retry">>
        THEN IF n >= 3 /\ callback_data[2] \in {<<"yt">>, <<"ig">>}
             THEN "retry"
             ELSE IF n >= 3 /\ callback_data[2] = <<"ctx">>
                     /\ NotInt(callback_data[3])
             THEN "raise"
             ELSE "retry"
        ELSE IF action \in {<<"cancel_processing">>, <<"cancel">>}
        THEN IF n < 3 THEN "invalid"
             ELSE IF NotInt(callback_data[3]) THEN "invalid"
             ELSE "cancel"
        ELSE IF action = <<"back">>
        THEN IF n < 4 \/ callback_data[2] # <<"to">>
                \/ callback_data[3] # <<"type">>
             THEN "invalid"
             ELSE IF NotInt(callback_data[4]) THEN "raise"
             ELSE "back"
        ELSE IF action = <<"convert">>
        THEN IF n < 3 \/ callback_data[2] # <<"audio">> THEN "invalid"
             ELSE IF NotInt(callback_data[3]) THEN "raise"
             ELSE "convert"
        ELSE "none"

\* The stages the handler has a branch for.
Stages == {"type", "quality", "retry", "cancel", "back", "convert"}

\* The patterns the handler is registered for: ^type_, ^quality_, ^retry_,
\* ^back_to_type_, ^convert_audio_ and ^cancel_processing_.
Prefixes ==
    {<<(<<"type">>)>>, <<(<<"quality">>)>>, <<(<<"retry">>)>>,
     <<(<<"back">>), (<<"to">>), (<<"type">>)>>,
     <<(<<"convert">>), (<<"audio">>)>>,
     <<(<<"cancel">>), (<<"processing">>)>>}

\* A field after the prefix: empty, a word, a number or something else.
OtherFields == {<<>>, <<"video">>, <<"ctx">>, <<"yt">>, <<"7">>, <<"x">>}

RECURSIVE FieldLists(_)
FieldLists(n) ==
    IF n = 1 THEN {<<f>> : f \in OtherFields}
    ELSE FieldLists(n - 1) \cup
         {Append(l, f) : l \in FieldLists(n - 1), f \in OtherFields}

\* query.data: a registered prefix and up to MaxFields further fields,
\* joined by the separator.
CallbackStrings ==
    {Join(p \o l) : p \in Prefixes, l \in FieldLists(MaxFields)}

NoCallback == [stage |-> "none", data |-> <<>>, outcome |-> ""]

\* A callback query with the data arrives and the handler runs to its
\* branch.
ReceiveCallback(data) ==
    /\ tok.stage = "none"
    /\ tok' = [stage |-> "handled", data |-> data,
               outcome |-> HandleCallback(data)]
    /\ UNCHANGED mainVars

(***************************************************************************)
(* The progress display of one video or audio fetch: the worker thread     *)
(* running download_video reports through sync_progress_callback, the      *)
(* task progress_updater renders on the status message, and                *)
(* download_and_send_video starts and stops the task.  A progress text is  *)
(* modelled by the percentage it shows.                                    *)
(***************************************************************************)
Pcts == 0..MaxPct

NoProgress ==
    [hpc |-> "start", wpc |-> "idle", val |-> 0, reported |-> 0, puts |-> 0,
     queue |-> <<>>, written |-> None, stop |-> FALSE, cancelreq |-> FALSE,
     cpc |-> "none", last_text |-> None, inflight |-> {}, rendered |-> <<>>]

\* asyncio.create_task(progress_updater()) and run_in_executor: the task is
\* created and the worker thread enters download_video.
StartFetch ==
    /\ tok.hpc = "start"
    /\ tok' = [tok EXCEPT !.hpc = "fetch", !.wpc = "run", !.cpc = "new"]
    /\ UNCHANGED mainVars

\* download_video raises before its try block, before any report.
WorkerRaise ==
    /\ tok.wpc = "run" /\ tok.puts = 0
    /\ tok' = [tok EXCEPT !.wpc = "raised"]
    /\ UNCHANGED mainVars

\* _progress_hook passes a percentage, not below the last one, to
\* sync_progress_callback.
WorkerHook(p) ==
    /\ tok.wpc = "run" /\ tok.puts < MaxReports
    /\ p >= tok.reported
    /\ tok' = [tok EXCEPT !.wpc = "drain", !.val = p, !.reported = p]
    /\ UNCHANGED mainVars

\* sync_progress_callback, the test of its loop: progress_queue.empty().
WorkerDrain_Skip ==
    /\ tok.wpc = "drain"
    /\ tok' = [tok EXCEPT !.wpc = "put"]
    /\ UNCHANGED mainVars

WorkerDrain ==
    /\ tok.wpc = "drain"
    /\ tok' = [tok EXCEPT !.wpc = IF tok.queue = <<>> THEN "put" ELSE "get"]
    /\ UNCHANGED mainVars

\* sync_progress_callback, the body of its loop: get_nowait(), which raises
\* queue.Empty when the consumer took the value in between.
WorkerGet ==
    /\ tok.wpc = "get"
    /\ tok' = IF tok.queue = <<>>
              THEN [tok EXCEPT !.wpc = "put"]
              ELSE [tok EXCEPT !.wpc = "drain", !.queue = Tail(tok.queue)]
    /\ UNCHANGED mainVars

\* sync_progress_callback: progress_queue.put(status_text).
WorkerPut ==
    /\ tok.wpc = "put"
    /\ tok' = [tok EXCEPT !.wpc = "run",
                          !.queue = Append(tok.queue, tok.val),
                          !.written = Some(tok.val),
                          !.puts = tok.puts + 1]
    /\ UNCHANGED mainVars

\* download_video returns its pair, a file or an error message.
WorkerReturn ==
    /\ tok.wpc = "run"
    /\ tok' = [tok EXCEPT !.wpc = "done"]
    /\ UNCHANGED mainVars

\* The event loop resumes the task: at its start, or after asyncio.sleep.
ConsumerWake ==
    /\ tok.cpc \in {"new", "sleep"} /\ ~tok.cancelreq
    /\ tok' = [tok EXCEPT !.cpc = "ready"]
    /\ UNCHANGED mainVars

\* One turn of the loop of progress_updater, up to its next await.
ConsumerRun_NoAwait ==
    /\ tok.cpc = "ready"
    /\ tok' =
         IF tok.stop THEN [tok EXCEPT !.cpc = "dead"]
         ELSE IF tok.queue = <<>> THEN [tok EXCEPT !.cpc = "sleep"]
         ELSE IF Some(Head(tok.queue)) = tok.last_text
         THEN [tok EXCEPT !.queue = Tail(tok.queue)]
         ELSE [tok EXCEPT !.queue = Tail(tok.queue),
                          !.last_text = Some(Head(tok.queue)),
                          !.inflight = tok.inflight \cup {Head(tok.queue)}]
    /\ UNCHANGED mainVars

ConsumerRun ==
    /\ tok.cpc = "ready"
    /\ tok' =
         IF tok.stop THEN [tok EXCEPT !.cpc = "dead"]
         ELSE IF tok.queue = <<>> THEN [tok EXCEPT !.cpc = "get"]
         ELSE IF Some(Head(tok.queue)) = tok.last_text
         THEN [tok EXCEPT !.queue = Tail(tok.queue)]
         ELSE [tok EXCEPT !.queue = Tail(tok.queue),
                          !.cpc = "edit",
                          !.inflight = {Head(tok.queue)}]
    /\ UNCHANGED mainVars

\* progress_queue.get(timeout=0.5) on an empty queue is a blocking call made
\* by the task, on the thread of the event loop: it returns when the worker
\* puts a value, or raises queue.Empty after the timeout, and only then
\* does the task reach await asyncio.sleep(0.1).
ConsumerGetDone ==
    /\ tok.cpc = "get"
    /\ tok' = [tok EXCEPT !.cpc = IF tok.queue = <<>> THEN "sleep"
                                  ELSE "ready"]
    /\ UNCHANGED mainVars

\* safe_edit_message returns to the task: the text is on the status message
\* when the request landed, and last_text is set in either case.
EditDone(v, landed) ==
    /\ v \in tok.inflight /\ ~tok.cancelreq
    /\ tok' = [tok EXCEPT !.cpc = "ready",
                          !.inflight = tok.inflight \ {v},
                          !.last_text = Some(v),
                          !.rendered = IF landed THEN Append(tok.rendered, v)
                                       ELSE tok.rendered]
    /\ UNCHANGED mainVars

\* CancelledError is thrown into the task at the await it is suspended at;
\* an edit request already sent may still land.
ConsumerCancelled(landed) ==
    /\ tok.cancelreq /\ tok.cpc \in {"new", "sleep", "edit"}
    /\ tok' = [tok EXCEPT !.cpc = "dead",
                          !.inflight = {},
                          !.rendered =
                              IF landed /\ tok.cpc = "edit"
                              THEN Append(tok.rendered,
                                          CHOOSE v \in tok.inflight : TRUE)
                              ELSE tok.rendered]
    /\ UNCHANGED mainVars

\* The worker call returned: stop_progress.set(), progress_task.cancel(),
\* and the handler awaits the task.  The event loop runs one coroutine at a
\* time, so the task is suspended at an await when the handler resumes.
FetchReturns ==
    /\ tok.hpc = "fetch" /\ tok.wpc = "done" /\ tok.cpc \notin {"ready", "get"}
    /\ tok' = [tok EXCEPT !.hpc = "stopping", !.stop = TRUE,
                          !.cancelreq = TRUE]
    /\ UNCHANGED mainVars

\* await progress_task ends, and the handler goes on to its return.
AwaitConsumer ==
    /\ tok.hpc = "stopping" /\ tok.cpc = "dead"
    /\ tok' = [tok EXCEPT !.hpc = "returned"]
    /\ UNCHANGED mainVars

\* The worker call raised: the exception leaves the await of
\* run_in_executor for the handler's except and finally clauses.
FetchRaises ==
    /\ tok.hpc = "fetch" /\ tok.wpc = "raised"
    /\ tok.cpc \notin {"ready", "get"}
    /\ tok' = [tok EXCEPT !.hpc = "returned"]
    /\ UNCHANGED mainVars

(***************************************************************************)
(* VideoDownloader.cleanup_user_files on the owner's directory as the file *)
(* system holds it: the path may not exist, may not be listable, and its   *)
(* entries, in the order os.listdir returns them, are regular files,       *)
(* regular files os.remove fails on, and sub-directories.                  *)
(***************************************************************************)
EntryKinds == {"file", "locked", "dir"}

Listings == UNION {[1..n -> EntryKinds] : n \in 0..MaxEntries}

Paths ==
    {[exists |-> FALSE, listable |-> FALSE, entries |-> <<>>],
     [exists |-> TRUE, listable |-> FALSE, entries |-> <<>>]}
    \cup {[exists |-> TRUE, listable |-> TRUE, entries |-> l] : l \in Listings}

\* The loop over os.listdir: os.remove on every regular file, up to the
\* first exception, which ends the loop.
RECURSIVE RemoveFiles(_)
RemoveFiles(entries) ==
    IF entries = <<>> THEN <<>>
    ELSE IF Head(entries) = "dir"
    THEN <<"dir">> \o RemoveFiles(Tail(entries))
    ELSE IF Head(entries) = "locked" THEN entries
    ELSE RemoveFiles(Tail(entries))

\* The path after the call, and whether the call raised.
cleanup_user_files_First(path) ==
    [path |-> IF path.exists /\ path.listable
                 /\ \E i \in 1..Len(path.entries) : path.entries[i] = "file"
              THEN LET i == CHOOSE i \in 1..Len(path.entries) :
                               /\ path.entries[i] = "file"
                               /\ \A j \in 1..(i - 1) :
                                      path.entries[j] # "file"
                   IN  [path EXCEPT !.entries =
                            SubSeq(@, 1, i - 1) \o SubSeq(@, i + 1, Len(@))]
              ELSE path,
     raised |-> FALSE]

cleanup_user_files(path) ==
    [path |-> IF path.exists /\ path.listable
              THEN [path EXCEPT !.entries = RemoveFiles(@)]
              ELSE path,
     raised |-> FALSE]

NoCleanup ==
    [calls |-> 0, given |-> [exists |-> FALSE, listable |-> FALSE,
                             entries |-> <<>>],
     path |-> [exists |-> FALSE, listable |-> FALSE, entries |-> <<>>],
     once |-> [exists |-> FALSE, listable |-> FALSE, entries |-> <<>>],
     raised |-> FALSE, started |-> FALSE]

\* The file system holds the owner's path in the given state.
GivePath(path) ==
    /\ ~tok.started
    /\ tok' = [tok EXCEPT !.started = TRUE, !.given = path, !.path = path]
    /\ UNCHANGED mainVars

\* cleanup_user_files is called, for the first and for the second time.
CallCleanup ==
    /\ tok.started /\ tok.calls < 2 /\ ~tok.raised
    /\ LET r == cleanup_user_files(tok.path)
       IN  tok' = [tok EXCEPT !.calls = @ + 1,
                              !.path = r.path,
                              !.raised = r.raised,
                              !.once = IF tok.calls = 0 THEN r.path ELSE @]
    /\ UNCHANGED mainVars

(***************************************************************************)
(* The quality keyboard the type branch of handle_quality_selection builds *)
(* from the cached formats of the chosen kind.  An option is an entry of   *)
(* video_formats, audio_formats or image_formats: its label fmt["quality"],*)
(* its fmt["format_id"] (video and audio) and its fmt["url"] (image).      *)
(***************************************************************************)
OptionsOf(kind) ==
    IF kind = "video"
    THEN {[quality |-> <<"1080p">>, format_id |-> Some(<<"137">>),
           url |-> None],
          [quality |-> <<"720p">>, format_id |-> Some(<<"22">>),
           url |-> None],
          [quality |-> <<"720p">>,
           format_id |-> Some(<<"dash", Sep, "sd">>), url |-> None]}
    ELSE IF kind = "audio"
    THEN {[quality |-> <<"High">>, format_id |-> Some(<<"140">>),
           url |-> None],
          [quality |-> <<"Low">>,
           format_id |-> Some(<<"hls", Sep, "mp3">>), url |-> None]}
    ELSE {[quality |-> <<"Original">>, format_id |-> None,
           url |-> Some(<<"u1">>)],
          [quality |-> <<"Original">>, format_id |-> None,
           url |-> Some(<<"u2">>)],
          [quality |-> <<"800x600">>, format_id |-> None,
           url |-> Some(<<"u1">>)]}

\* The lists get_video_info can have cached for the kind.
Catalogs(kind) == UNION {[1..n -> OptionsOf(kind)] : n \in 0..MaxOptions}

\* fmt.get("format_id", fmt.get("url", "none")[:50])
FormatIdOf(fmt) ==
    IF ~IsNone(fmt.format_id) THEN Val(fmt.format_id)
    ELSE IF IsNone(fmt.url) THEN <<"none">>
    ELSE SubSeq(Val(fmt.url), 1, Min(UrlPrefix, Len(Val(fmt.url))))

\* formats.index(fmt)
IndexOf(formats, fmt) ==
    (CHOOSE i \in 1..Len(formats) :
         formats[i] = fmt /\ \A j \in 1..(i - 1) : formats[j] # fmt) - 1

\* The button of one option: for an image the index stands where the
\* format id stands for the other kinds.
OptionButton(format_type, formats, fmt, download_id) ==
    [label |-> fmt.quality,
     data |-> Join(<<(<<"quality">>), (<<format_type>>), fmt.quality,
                     IF format_type = "image"
                     THEN ToStr(IndexOf(formats, fmt))
                     ELSE FormatIdOf(fmt),
                     ToStr(download_id)>>)]

AutoButton(format_type, download_id) ==
    [label |-> <<"Auto">>,
     data |-> Join(<<(<<"quality">>), (<<format_type>>), (<<"best">>),
                     (<<"none">>), ToStr(download_id)>>)]

BackButton(download_id) ==
    [label |-> <<"Back">>,
     data |-> Join(<<(<<"back">>), (<<"to">>), (<<"type">>),
                     ToStr(download_id)>>)]

\* The rows of the keyboard, top to bottom.
QualityKeyboard_AutoAlways(format_type, formats, download_id) ==
    <<AutoButton(format_type, download_id)>>
    \o [i \in 1..Min(KeyboardLimit, Len(formats)) |->
            OptionButton(format_type, formats, formats[i], download_id)]
    \o <<BackButton(download_id)>>

QualityKeyboard(format_type, formats, download_id) ==
    (IF format_type # "image" \/ Len(formats) > 1
     THEN <<AutoButton(format_type, download_id)>>
     ELSE <<>>)
    \o [i \in 1..Min(KeyboardLimit, Len(formats)) |->
            OptionButton(format_type, formats, formats[i], download_id)]
    \o <<BackButton(download_id)>>

NoKeyboard ==
    [stage |-> "none", kind |-> "", id |-> 0, formats |-> <<>>,
     keyboard |-> <<>>]

\* type_<kind>_<id> is pressed with the formats cached: "No formats
\* available for this type." when the list is empty, else the keyboard.
ShowQualities(format_type, formats, download_id) ==
    /\ tok.stage = "none"
    /\ tok' = [stage |-> IF formats = <<>> THEN "noformats" ELSE "shown",
               kind |-> format_type, id |-> download_id,
               formats |-> formats,
               keyboard |-> IF formats = <<>> THEN <<>>
                            ELSE QualityKeyboard(format_type, formats,
                                                 download_id)]
    /\ UNCHANGED mainVars

(***************************************************************************)
(* download_video: one call of the executor.  The directory of the owner   *)
(* is the set of the files it holds, each named by what the candidate      *)
(* search makes of it: "expected" is a non-empty file at the prepared      *)
(* filename, "empty" a zero-length file there, "otherext" a non-empty file *)
(* at the base name with one of possible_extensions, "recent" another      *)
(* non-empty media file modified within 120 seconds, "stale" an older one, *)
(* "part" a .part file.  requests lists the format selectors of the        *)
(* extract_info(url, download=True) calls made so far.                     *)
(***************************************************************************)
FileStates == {"expected", "empty", "otherext", "recent", "stale", "part"}

\* The format selector download_video configures.
FormatString(format_type, is_instagram, format_id, quality) ==
    IF format_type = "audio"
    THEN IF ~IsNone(format_id) /\ Val(format_id) \notin {"best", "bestaudio"}
         THEN <<Val(format_id), "/bestaudio/best">>
         ELSE <<"bestaudio/best">>
    ELSE IF is_instagram
    THEN <<"best">>
    ELSE IF ~IsNone(format_id) /\ Val(format_id) # "best"
    THEN <<Val(format_id), "+bestaudio/", Val(format_id), "/best">>
    ELSE IF ~IsNone(quality) /\ Val(quality) \notin {<<"b","e","s","t">>, <<"B","e","s","t">>}
    THEN LET quality_height == SelectSeq(Val(quality), LAMBDA c : c # "p")
         IN  IF quality_height # <<>>
                /\ \A i \in 1..Len(quality_height) : IsDigit(quality_height[i])
             THEN <<"bestvideo[height<=">> \o quality_height
                      \o <<"]+bestaudio/best[height<=">> \o quality_height
                      \o <<"]/best">>
             ELSE <<"bestvideo+bestaudio/best">>
    ELSE <<"bestvideo+bestaudio/best">>

\* _find_candidate_file, and the same three tests after the fallback.
FindCandidate(dir) ==
    IF "expected" \in dir THEN Some("expected")
    ELSE IF "otherext" \in dir THEN Some("otherext")
    ELSE IF "recent" \in dir THEN Some("recent")
    ELSE None

\* What one download request can leave in the directory: the prepared
\* filename holds one file, empty or not.
Produced == {p \in SUBSET {"expected", "empty", "otherext", "part"} :
                 ~({"expected", "empty"} \subseteq p)}

\* overwrites: a file written at the prepared filename replaces the one there.
Written(dir, p) ==
    (IF p \cap {"expected", "empty"} # {}
     THEN dir \ {"expected", "empty"} ELSE dir) \cup p

FormatIdArgs == {None, Some("best"), Some("bestaudio"), Some("137")}
QualityArgs == {None, Some(<<"b","e","s","t">>), Some(<<"7","2","0","p">>),
                Some(<<"H","i","g","h">>)}

NoFetch ==
    [pc |-> "idle", format_string |-> <<>>, requests |-> <<>>, dir |-> {},
     file |-> None, error |-> None]

\* download_video is called: the selector is configured, YoutubeDL opened.
CallDownloadVideo(format_type, is_instagram, format_id, quality, dir) ==
    /\ tok.pc = "idle"
    /\ tok' = [tok EXCEPT !.pc = "info", !.dir = dir,
                  !.format_string =
                      FormatString(format_type, is_instagram, format_id,
                                   quality)]
    /\ UNCHANGED mainVars

\* extract_info(url, download=False) returns the info, returns nothing,
\* or raises.
InfoDone(outcome) ==
    /\ tok.pc = "info"
    /\ tok' = IF outcome = "info"
              THEN [tok EXCEPT !.pc = "download"]
              ELSE [tok EXCEPT !.pc = "returned",
                        !.error = Some(IF outcome = "none"
                                       THEN "Failed to extract video info"
                                       ELSE "Download failed")]
    /\ UNCHANGED mainVars

\* extract_info(url, download=True) with the configured selector, then the
\* candidate search; with no candidate the .part files are removed and the
\* call goes on to the fallback.
FirstDownload(outcome, p) ==
    /\ tok.pc = "download"
    /\ LET dir == Written(tok.dir, p)
           requests == Append(tok.requests, tok.format_string)
           candidate == FindCandidate(dir)
       IN  tok' =
             IF outcome = "raise"
             THEN [tok EXCEPT !.pc = "returned", !.requests = requests,
                       !.dir = dir, !.error = Some("Download failed")]
             ELSE IF outcome = "none"
             THEN [tok EXCEPT !.pc = "returned", !.requests = requests,
                       !.dir = dir, !.error = Some("Failed to download")]
             ELSE IF ~IsNone(candidate)
             THEN [tok EXCEPT !.pc = "returned", !.requests = requests,
                       !.dir = dir, !.file = candidate]
             ELSE [tok EXCEPT !.pc = "fallback", !.requests = requests,
                       !.dir = dir \ {"part"}]
    /\ UNCHANGED mainVars

\* The fallback: a second YoutubeDL with format "best" and
\* extract_info(url, download=True), then the same search.
FallbackDownload(outcome, p) ==
    /\ tok.pc = "fallback"
    /\ LET dir == Written(tok.dir, p)
           requests == Append(tok.requests, <<"best">>)
           candidate == FindCandidate(dir)
       IN  tok' =
             IF outcome = "info" /\ ~IsNone(candidate)
             THEN [tok EXCEPT !.pc = "returned", !.requests = requests,
                       !.dir = dir, !.file = candidate]
             ELSE [tok EXCEPT !.pc = "returned", !.requests = requests,
                       !.dir = dir,
                       !.error = Some("Downloaded file is empty or not found after fallback")]
    /\ UNCHANGED mainVars

(***************************************************************************)
(* The delivery of one fetched file by download_and_send_video: the        *)
(* thumbnail fetch, then the direct send or TelethonUploader.upload_file   *)
(* and copy_message.  world says what the transports do to a request that  *)
(* carries no thumbnail; a request that carries one can also fail on the   *)
(* thumbnail alone.  sends lists the requests made, each with the          *)
(* transport, whether it carried the thumbnail, and whether the bytes of   *)
(* the file were transferred by it.                                        *)
(***************************************************************************)
Worlds == [send : {"ok", "raise"}, copy : {"ok", "raise"}]

NoDelivery ==
    [pc |-> "idle", format_type |-> "", use_telethon |-> FALSE,
     world |-> [send |-> "ok", copy |-> "ok"], thumbnail_path |-> FALSE,
     thumb |-> FALSE, sends |-> <<>>, status |-> "processing",
     delivered |-> FALSE]

\* The file is fetched and routed; the thumbnail fetch is about to run.
StartDelivery(format_type, use_telethon, world) ==
    /\ tok.pc = "idle"
    /\ tok' = [tok EXCEPT !.pc = "thumb", !.format_type = format_type,
                  !.use_telethon = use_telethon, !.world = world]
    /\ UNCHANGED mainVars

\* video_info has no thumbnail ("nourl"), download_thumb writes the file
\* ("saved"), returns False ("failed"), or the block raises ("raised").
ThumbDone(outcome) ==
    /\ tok.pc = "thumb"
    /\ tok' = [tok EXCEPT !.pc = IF tok.use_telethon THEN "upload" ELSE "send",
                  !.thumbnail_path = (outcome = "saved")]
    /\ UNCHANGED mainVars

\* send_audio, send_photo or send_video: the thumbnail is attached to audio
\* and video when the path is set and exists.  A raise goes to the handler's
\* except Exception, which writes no status.
DirectSend(outcome) ==
    /\ tok.pc = "send"
    /\ LET thumbnail_file == tok.thumbnail_path /\ tok.format_type # "image"
       IN  /\ outcome = "thumb" => thumbnail_file /\ tok.world.send = "ok"
           /\ outcome = "ok" => tok.world.send = "ok"
           /\ outcome = "raise" => tok.world.send = "raise"
           /\ \E bytes \in BOOLEAN :
                /\ outcome = "ok" => bytes
                /\ tok' = [tok EXCEPT
                       !.pc = IF outcome = "ok" THEN "donemsg" ELSE "returned",
                       !.sends = Append(@, [via |-> "bot",
                                            thumb |-> thumbnail_file,
                                            bytes |-> bytes]),
                       !.status = IF outcome = "ok" THEN "completed" ELSE @,
                       !.delivered = (outcome = "ok")]
    /\ UNCHANGED mainVars

\* upload_file up to its first send_file: upload_kwargs["thumb"] is set when
\* the path is given and exists.
UploadCall ==
    /\ tok.pc = "upload"
    /\ tok' = [tok EXCEPT !.pc = "sendfile", !.thumb = tok.thumbnail_path]
    /\ UNCHANGED mainVars

\* client.send_file(channel, file_path, **upload_kwargs) returns the message
\* ("ok"), raises FileNotFoundError or OSError ("oserror"), or raises
\* something else ("other").  An OSError with a thumbnail in the arguments
\* goes on to the retry; any other raise makes upload_file return
\* (None, error) and the handler write failed.
SendFileReturns(outcome, fault, bytes) ==
    /\ tok.pc = "sendfile"
    /\ fault = "thumb" => tok.thumb /\ tok.world.send = "ok"
    /\ fault = "none" => tok.world.send = "ok" /\ outcome = "ok"
    /\ fault = "transport" => tok.world.send = "raise"
    /\ fault # "none" => outcome # "ok"
    /\ outcome = "ok" => bytes
    /\ tok' = [tok EXCEPT
           !.pc = IF outcome = "ok" THEN "copy"
                  ELSE IF outcome = "oserror" /\ tok.thumb THEN "sendfile2"
                  ELSE "relayfail",
           !.sends = Append(@, [via |-> "telethon", thumb |-> tok.thumb,
                                bytes |-> bytes]),
           !.status = IF outcome = "ok" \/ (outcome = "oserror" /\ tok.thumb)
                      THEN @ ELSE "failed"]
    /\ UNCHANGED mainVars

\* The retry: del upload_kwargs["thumb"] and send_file again.
SendFileRetry(bytes) ==
    /\ tok.pc = "sendfile2"
    /\ tok.world.send = "ok" => bytes
    /\ tok' = [tok EXCEPT
           !.pc = IF tok.world.send = "ok" THEN "copy" ELSE "relayfail",
           !.thumb = FALSE,
           !.sends = Append(@, [via |-> "telethon", thumb |-> FALSE,
                                bytes |-> bytes]),
           !.status = IF tok.world.send = "ok" THEN @ ELSE "failed"]
    /\ UNCHANGED mainVars

\* copy_message from the storage channel to the owner.
CopyMessage ==
    /\ tok.pc = "copy"
    /\ tok' = [tok EXCEPT
           !.pc = IF tok.world.copy = "ok" THEN "donemsg" ELSE "relayfail",
           !.sends = Append(@, [via |-> "copy", thumb |-> FALSE,
                                bytes |-> FALSE]),
           !.status = IF tok.world.copy = "ok" THEN "completed" ELSE "failed",
           !.delivered = (tok.world.copy = "ok")]
    /\ UNCHANGED mainVars

\* The closing message is edited and the handler returns.
DeliveryReturns ==
    /\ tok.pc \in {"donemsg", "relayfail"}
    /\ tok' = [tok EXCEPT !.pc = "returned"]
    /\ UNCHANGED mainVars

(***************************************************************************)
(* get_video_info: the loop over info["formats"] that builds video_formats *)
(* and audio_formats, and the two sorts.  A rendition is what the loop     *)
(* reads of one fmt: whether vcodec and acodec are present and not "none", *)
(* height, abr, tbr, and filesize (0 when neither filesize nor             *)
(* filesize_approx nor an estimate is there).  format_id is its position   *)
(* in the list.                                                            *)
(***************************************************************************)
MaxFormats == 3

Renditions ==
    [vcodec : {TRUE}, acodec : {FALSE}, height : {0, 720, 800}, abr : {0},
     tbr : {1, 2}, filesize : {0}]
    \cup [vcodec : {TRUE}, acodec : {TRUE}, height : {0, 720, 800},
          abr : {128}, tbr : {1, 2}, filesize : {0}]
    \cup [vcodec : {FALSE}, acodec : {TRUE}, height : {0},
          abr : {0, 128, 160}, tbr : {0}, filesize : {0, 1, 2}]

FormatLists == UNION {[1..n -> Renditions] : n \in 0..MaxFormats}

\* The quality label of a video rendition: its named height tier.
VideoLabel(height) ==
    IF height >= 2160 THEN "4K (2160p)"
    ELSE IF height >= 1440 THEN "2K (1440p)"
    ELSE IF height >= 1080 THEN "Full HD (1080p)"
    ELSE IF height >= 720 THEN "HD (720p)"
    ELSE IF height >= 480 THEN "SD (480p)"
    ELSE IF height >= 360 THEN "360p"
    ELSE IF height >= 240 THEN "240p"
    ELSE "144p"

\* The tier of an audio rendition; the label also shows the bitrate.
AudioLabel(abr) ==
    IF abr >= 256 THEN "High" ELSE IF abr >= 192 THEN "Medium" ELSE "Low"

FormatEntry(fmt, i, quality) ==
    [format_id |-> i, height |-> fmt.height, abr |-> fmt.abr,
     tbr |-> fmt.tbr, filesize |-> fmt.filesize, quality |-> quality]

\* The loop body for formats[i], from the lists and seen sets so far.
RECURSIVE ScanFormats(_, _, _)
ScanFormats(formats, i, acc) ==
    IF i > Len(formats) THEN acc
    ELSE LET fmt == formats[i]
             is_video == fmt.vcodec
         IN  ScanFormats(formats, i + 1,
               IF is_video /\ fmt.height > 0
                  /\ fmt.height \notin acc.seen_video_qualities
               THEN [acc EXCEPT
                       !.video_formats =
                           Append(@, FormatEntry(fmt, i,
                                                 VideoLabel(fmt.height))),
                       !.seen_video_qualities = @ \cup {fmt.height}]
               ELSE IF fmt.acodec /\ fmt.abr > 0
                       /\ fmt.abr \notin acc.seen_audio_qualities
               THEN [acc EXCEPT
                       !.audio_formats =
                           Append(@, FormatEntry(fmt, i,
                                                 AudioLabel(fmt.abr))),
                       !.seen_audio_qualities = @ \cup {fmt.abr}]
               ELSE acc)

\* list.sort(key, reverse=True): stable, greatest key first.  keys[i] is the
\* key of s[i].
SortDesc(s, keys) ==
    LET Rank(i) == 1 + Cardinality({j \in 1..Len(s) :
                           \/ keys[j] > keys[i]
                           \/ keys[j] = keys[i] /\ j < i})
    IN  [p \in 1..Len(s) |-> s[CHOOSE i \in 1..Len(s) : Rank(i) = p]]

\* video_formats and audio_formats after the loop and the sorts: by height,
\* and by filesize.
BuildFormats(formats) ==
    LET acc == ScanFormats(formats, 1,
                   [video_formats |-> <<>>, audio_formats |-> <<>>,
                    seen_video_qualities |-> {},
                    seen_audio_qualities |-> {}])
        v == acc.video_formats
        a == acc.audio_formats
    IN  [video_formats |-> SortDesc(v, [i \in 1..Len(v) |-> v[i].height]),
         audio_formats |-> SortDesc(a, [i \in 1..Len(a) |-> a[i].filesize])]

NoCatalog ==
    [stage |-> "none", formats |-> <<>>, video_formats |-> <<>>,
     audio_formats |-> <<>>]

\* The extraction returned info with the list formats.
Extracted(formats) ==
    /\ tok.stage = "none"
    /\ tok' = [tok EXCEPT !.stage = "raw", !.formats = formats]
    /\ UNCHANGED mainVars

\* The loop and the sorts run.
BuildCatalog ==
    /\ tok.stage = "raw"
    /\ LET r == BuildFormats(tok.formats)
       IN  tok' = [tok EXCEPT !.stage = "built",
                              !.video_formats = r.video_formats,
                              !.audio_formats = r.audio_formats]
    /\ UNCHANGED mainVars

(***************************************************************************)
(* get_video_info on every extraction result, and the type keyboard        *)
(* handle_url builds from what it returns.                                 *)
(***************************************************************************)
MaxRenditions == 2

AllRawInfos ==
    {Raw(yt, vc, ac, nv, na, ni, dr, th) :
        yt \in BOOLEAN, vc \in BOOLEAN, ac \in BOOLEAN,
        nv \in 0..MaxRenditions, na \in 0..MaxRenditions, ni \in 0..1,
        dr \in BOOLEAN, th \in BOOLEAN}

NoInfo ==
    [stage |-> "none", raw |-> Raw(FALSE, FALSE, FALSE, 0, 0, 0, FALSE, FALSE),
     info |-> GetVideoInfo(Raw(FALSE, FALSE, FALSE, 0, 0, 0, FALSE, FALSE)),
     keyboard |-> {}]

\* extract_info returned info.
InfoExtracted(raw) ==
    /\ tok.stage = "none"
    /\ tok' = [tok EXCEPT !.stage = "raw", !.raw = raw]
    /\ UNCHANGED mainVars

\* get_video_info returns the dictionary.
InfoReturned ==
    /\ tok.stage = "raw"
    /\ tok' = [tok EXCEPT !.stage = "info", !.info = GetVideoInfo(tok.raw)]
    /\ UNCHANGED mainVars

\* handle_url builds the format type keyboard.
KeyboardBuilt ==
    /\ tok.stage = "info"
    /\ tok' = [tok EXCEPT !.stage = "keyboard",
                          !.keyboard = TypeKeyboard(tok.info)]
    /\ UNCHANGED mainVars

(***************************************************************************)
(* Two users.  B owns one Download record; A is another user who presses   *)
(* tokens that carry the id of B's record.  record is B's row of the       *)
(* downloads table (status "none": not created yet), b the columns of B's  *)
(* row of the users table, acached whether a video_info is cached under    *)
(* A's key (Redis and context.user_data are per user), apc the position of *)
(* A's coroutine and asnap the status its session holds.                   *)
(***************************************************************************)
MaxUsed == 2

NoOwners ==
    [record |-> [status |-> "none", error_message |-> "", title |-> "",
                 format_type |-> ""],
     b |-> [is_downloading |-> FALSE, used_quota |-> None],
     acached |-> FALSE, apc |-> "idle", asnap |-> "", akind |-> "",
     shown |-> FALSE]

QuotaRoom ==
    IF IsNone(tok.b.used_quota) THEN TRUE ELSE Val(tok.b.used_quota) < MaxUsed

\* B's handle_url is admitted: B's record is created, B's flag is set.
BSubmit ==
    /\ tok.record.status = "none"
    /\ tok' = [tok EXCEPT !.record = [status |-> "processing",
                                      error_message |-> "",
                                      title |-> "extracted",
                                      format_type |-> ""],
                          !.b.is_downloading = TRUE]
    /\ UNCHANGED mainVars

\* B's own run of download_and_send_video delivers or fails, and its
\* finally block runs.
BDone(status) ==
    /\ tok.record.status = "processing" /\ QuotaRoom
    /\ tok' = [tok EXCEPT
           !.record.status = status,
           !.record.format_type = IF status = "completed" THEN "video" ELSE @,
           !.record.error_message =
               IF status = "failed" THEN "Download failed" ELSE @,
           !.b = ReleaseUser(@, status)]
    /\ UNCHANGED mainVars

\* A submits a URL of A's own and its info is cached under A's key.
ACache ==
    /\ ~tok.acached
    /\ tok' = [tok EXCEPT !.acached = TRUE]
    /\ UNCHANGED mainVars

\* A presses cancel_processing_<id of B's record>: the record is looked up
\* by id alone and the owner's row by download.user_id.
APressCancel ==
    /\ tok.apc = "idle" /\ tok.record.status # "none"
    /\ tok' = IF tok.record.status = "processing"
              THEN [tok EXCEPT !.record.status = "failed",
                               !.record.error_message = "Cancelled by user",
                               !.b.is_downloading = FALSE]
              ELSE tok
    /\ UNCHANGED mainVars

\* A presses type_<kind>_<id>: the keyboard is built from the info cached
\* under A's key, or "Session expired" is answered.
APressType ==
    /\ tok.apc = "idle" /\ tok.record.status # "none"
    /\ tok' = [tok EXCEPT !.shown = tok.acached]
    /\ UNCHANGED mainVars

\* A presses quality_<kind>_..._<id>: download_and_send_video(id, ...,
\* user_id = A) loads B's record and looks the info up under A's key.
APressQuality(kind) ==
    /\ tok.apc = "idle" /\ tok.record.status # "none"
    /\ tok' = [tok EXCEPT !.apc = IF tok.acached THEN "fetch" ELSE "expired",
                          !.asnap = tok.record.status, !.akind = kind]
    /\ UNCHANGED mainVars

\* A presses convert_audio_<id>: the record is looked up by id alone.
APressConvert ==
    /\ tok.apc = "idle" /\ tok.record.status # "none"
    /\ tok' = [tok EXCEPT !.apc = "cextract"]
    /\ UNCHANGED mainVars

\* get_video_info(download.url) returned: nothing, or the info, which is
\* cached under A's key; download.title is written and
\* download_and_send_video(id, "audio", ...) is entered.
AConvertExtract(ok) ==
    /\ tok.apc = "cextract"
    /\ tok' = IF ok
              THEN [tok EXCEPT !.apc = "fetch", !.acached = TRUE,
                               !.record.title = "refetched",
                               !.asnap = tok.record.status,
                               !.akind = "audio"]
              ELSE [tok EXCEPT !.apc = "idle"]
    /\ UNCHANGED mainVars

\* A's fetch returned no file: the record is written failed.
AFetchFailed ==
    /\ tok.apc = "fetch"
    /\ tok' = [tok EXCEPT
           !.apc = "final", !.asnap = "fresh",
           !.record = [Fail(@, tok.asnap, "Download failed")
                          EXCEPT !.title = tok.record.title,
                                 !.format_type = tok.record.format_type]]
    /\ UNCHANGED mainVars

\* A's file was sent to A: status completed and the kind of the delivery
\* are written to the record.
ADelivered ==
    /\ tok.apc = "fetch"
    /\ tok' = [tok EXCEPT
           !.apc = "final", !.asnap = "fresh", !.acached = FALSE,
           !.record = [Complete(@, tok.asnap)
                          EXCEPT !.format_type = tok.akind]]
    /\ UNCHANGED mainVars

\* The finally block of A's run: the row found by download.user_id, B's,
\* gets the quota increment and the cleared flag.
AFinally ==
    /\ tok.apc \in {"expired", "final"} /\ QuotaRoom
    /\ tok' = [tok EXCEPT
           !.apc = "idle",
           !.b = ReleaseUser(@, IF tok.asnap = "fresh"
                                THEN tok.record.status ELSE tok.asnap)]
    /\ UNCHANGED mainVars

(***************************************************************************)
(* The orchestration.                                                      *)
(***************************************************************************)
Init ==
    /\ user \in {[is_downloading |-> FALSE, used_quota |-> None,
                  daily_quota |-> Some(DailyQuota), last_quota_reset |-> None,
                  preferred_format |-> None],
                 [is_downloading |-> FALSE, used_quota |-> Some(0),
                  daily_quota |-> Some(DailyQuota),
                  last_quota_reset |-> Some(0),
                  preferred_format |-> Some("audio")]}
    /\ today = 0
    /\ downloads = <<>>
    /\ tasks = [t \in Slots |-> IdleTask]
    /\ redis = None
    /\ ctx = [i \in Ids |-> None]
    /\ files = {}
    /\ chat = {}
    /\ updates = 0
    /\ tok = NoToken

Next ==
    \/ Submit
    \/ ExtractDone
    \/ Reply
    \/ Download
    \/ Callback

Spec == Init /\ [][Next]_vars

(***************************************************************************)
(* The quality buttons alone: every button the keyboard can hold is built  *)
(* and pressed once.                                                       *)
(***************************************************************************)
InitToken ==
    /\ user = [is_downloading |-> FALSE, used_quota |-> None,
               daily_quota |-> Some(DailyQuota), last_quota_reset |-> None,
               preferred_format |-> None]
    /\ today = 0
    /\ downloads = <<>>
    /\ tasks = [t \in Slots |-> IdleTask]
    /\ redis = None
    /\ ctx = [i \in Ids |-> None]
    /\ files = {}
    /\ chat = {}
    /\ updates = 0
    /\ tok = NoToken

NextToken ==
    \/ \E kind \in Kinds, quality \in Labels, format_id \in FormatIds,
          id \in TokenIds : BuildButton(kind, quality, format_id, id)
    \/ PressButton

SpecToken == InitToken /\ [][NextToken]_vars

\* The owner's row and the tables at rest, for the specifications of the
\* single handlers below.
MainIdle ==
    /\ user = [is_downloading |-> FALSE, used_quota |-> None,
               daily_quota |-> Some(DailyQuota), last_quota_reset |-> None,
               preferred_format |-> None]
    /\ today = 0
    /\ downloads = <<>>
    /\ tasks = [t \in Slots |-> IdleTask]
    /\ redis = None
    /\ ctx = [i \in Ids |-> None]
    /\ files = {}
    /\ chat = {}
    /\ updates = 0

(***************************************************************************)
(* The Retry buttons alone: every button handle_url can issue is pressed.  *)
(***************************************************************************)
InitRetry == MainIdle /\ tok = NoRetry

NextRetry ==
    \/ \E platform \in Platforms, id \in MediaIds, stored \in StoredUrls :
           IssueRetry(platform, id, stored)
    \/ PressRetry

SpecRetry == InitRetry /\ [][NextRetry]_vars

(***************************************************************************)
(* The dispatch alone: one callback query of every shape.                  *)
(***************************************************************************)
InitCallback == MainIdle /\ tok = NoCallback

NextCallback == \E data \in CallbackStrings : ReceiveCallback(data)

SpecCallback == InitCallback /\ [][NextCallback]_vars

(***************************************************************************)
(* The progress display alone: one fetch with up to MaxReports reports.    *)
(***************************************************************************)
InitProgress == MainIdle /\ tok = NoProgress

NextProgress ==
    \/ StartFetch
    \/ WorkerRaise
    \/ \E p \in Pcts : WorkerHook(p)
    \/ WorkerDrain
    \/ WorkerGet
    \/ WorkerPut
    \/ WorkerReturn
    \/ ConsumerWake
    \/ ConsumerRun
    \/ ConsumerGetDone
    \/ \E v \in Pcts, landed \in BOOLEAN : EditDone(v, landed)
    \/ \E landed \in BOOLEAN : ConsumerCancelled(landed)
    \/ FetchReturns
    \/ AwaitConsumer
    \/ FetchRaises

SpecProgress == InitProgress /\ [][NextProgress]_vars

(***************************************************************************)
(* cleanup_user_files alone: two calls in a row on every path state.       *)
(***************************************************************************)
InitCleanup == MainIdle /\ tok = NoCleanup

NextCleanup ==
    \/ \E path \in Paths : GivePath(path)
    \/ CallCleanup

SpecCleanup == InitCleanup /\ [][NextCleanup]_vars

(***************************************************************************)
(* The quality keyboard alone: one type selection on every cached list.    *)
(***************************************************************************)
InitKeyboard == MainIdle /\ tok = NoKeyboard

NextKeyboard ==
    \E kind \in Kinds, id \in TokenIds :
        \E formats \in Catalogs(kind) : ShowQualities(kind, formats, id)

SpecKeyboard == InitKeyboard /\ [][NextKeyboard]_vars

(***************************************************************************)
(* The handlers from the state one delivered video leaves, for an owner    *)
(* whose daily_quota allows one download more: the record is completed,    *)
(* the cached info is deleted, the buttons are still in the chat.          *)
(***************************************************************************)
InitExpired ==
    /\ user \in {[is_downloading |-> FALSE, used_quota |-> Some(1),
                  daily_quota |-> Some(DailyQuota + 1),
                  last_quota_reset |-> Some(0),
                  preferred_format |-> p] : p \in {None, Some("audio")}}
    /\ today = 0
    /\ downloads = <<[status |-> "completed", error_message |-> ""]>>
    /\ tasks = [t \in Slots |-> IdleTask]
    /\ redis = None
    /\ ctx = [i \in Ids |-> None]
    /\ files = {}
    /\ chat = {Token("type", "video", 1), Token("quality", "video", 1),
               Token("back", "", 1), Token("convert", "", 1)}
    /\ updates = 0
    /\ tok = NoToken

\* The owner presses the quality buttons of the chat and submits URLs; the
\* coroutines are followed up to the fetch.
NextExpired ==
    \/ \E t \in Slots, k \in Kinds, id \in Ids : QualitySelect(t, k, id)
    \/ \E t \in Slots : EarlyReturn(t)
    \/ Submit
    \/ ExtractDone
    \/ Reply

SpecExpired == InitExpired /\ [][NextExpired]_vars

(***************************************************************************)
(* download_video alone: one call on every selection and directory.        *)
(***************************************************************************)
InitFetch == MainIdle /\ tok = NoFetch

NextFetch ==
    \/ \E format_type \in {"video", "audio"}, is_instagram \in BOOLEAN,
          format_id \in FormatIdArgs, quality \in QualityArgs,
          dir \in SUBSET {"recent", "stale", "part"} :
           CallDownloadVideo(format_type, is_instagram, format_id, quality,
                             dir)
    \/ \E outcome \in {"info", "none", "raise"} : InfoDone(outcome)
    \/ \E outcome \in {"info", "none", "raise"}, p \in Produced :
           FirstDownload(outcome, p)
    \/ \E outcome \in {"info", "none", "raise"}, p \in Produced :
           FallbackDownload(outcome, p)

SpecFetch == InitFetch /\ [][NextFetch]_vars

(***************************************************************************)
(* The delivery alone: one fetched file of every kind on either route, in  *)
(* every world.                                                            *)
(***************************************************************************)
InitDelivery == MainIdle /\ tok = NoDelivery

NextDelivery ==
    \/ \E format_type \in Kinds, use_telethon \in BOOLEAN, world \in Worlds :
           StartDelivery(format_type, use_telethon, world)
    \/ \E outcome \in {"nourl", "saved", "failed", "raised"} :
           ThumbDone(outcome)
    \/ \E outcome \in {"ok", "thumb", "raise"} : DirectSend(outcome)
    \/ UploadCall
    \/ \E outcome \in {"ok", "oserror", "other"},
          fault \in {"none", "thumb", "transport"}, bytes \in BOOLEAN :
           SendFileReturns(outcome, fault, bytes)
    \/ \E bytes \in BOOLEAN : SendFileRetry(bytes)
    \/ CopyMessage
    \/ DeliveryReturns

SpecDelivery == InitDelivery /\ [][NextDelivery]_vars

(***************************************************************************)
(* The convert button of a delivered video: from the state one delivered   *)
(* video leaves, the owner presses "Convert to Audio" and the coroutines   *)
(* are followed through download_and_send_video.                           *)
(***************************************************************************)
NextConvert ==
    \/ \E t \in Slots, id \in Ids : ConvertAudio(t, id)
    \/ \E t \in Slots : ConvertExtractFailed(t)
    \/ \E t \in Slots, raw \in RawInfos : ConvertExtractOk(t, raw)
    \/ \E t \in Slots :
        \/ FetchFailed(t)
        \/ FailMsgDone(t)
        \/ \E side \in BOOLEAN : FetchOk(t, side)
        \/ \E size \in Sizes : Routed(t, size)
        \/ TooLargeDone(t)
        \/ SendOk(t)
        \/ SendRaises(t)
        \/ UploadOk(t)
        \/ UploadFailed(t)
        \/ CopyOk(t)
        \/ CopyRaises(t)
        \/ RelayFailDone(t)
        \/ DoneMsgDone(t)
        \/ ErrMsgDone(t)

SpecConvert == InitExpired /\ [][NextConvert]_vars

(***************************************************************************)
(* The catalog alone: get_video_info on every list of renditions.          *)
(***************************************************************************)
InitCatalog == MainIdle /\ tok = NoCatalog

NextCatalog ==
    \/ \E formats \in FormatLists : Extracted(formats)
    \/ BuildCatalog

SpecCatalog == InitCatalog /\ [][NextCatalog]_vars

(***************************************************************************)
(* get_video_info alone: one extraction of every result.                   *)
(***************************************************************************)
InitInfo == MainIdle /\ tok = NoInfo

NextInfo ==
    \/ \E raw \in AllRawInfos : InfoExtracted(raw)
    \/ InfoReturned
    \/ KeyboardBuilt

SpecInfo == InitInfo /\ [][NextInfo]_vars

(***************************************************************************)
(* Two users and one record of B.                                          *)
(***************************************************************************)
InitOwners == MainIdle /\ tok = NoOwners

AStep ==
    \/ ACache
    \/ APressCancel
    \/ APressType
    \/ \E kind \in Kinds : APressQuality(kind)
    \/ APressConvert
    \/ \E ok \in BOOLEAN : AConvertExtract(ok)
    \/ AFetchFailed
    \/ ADelivered
    \/ AFinally

NextOwners ==
    \/ BSubmit
    \/ \E status \in {"completed", "failed"} : BDone(status)
    \/ AStep

SpecOwners == InitOwners /\ [][NextOwners]_vars

(***************************************************************************)
(* Rejected submissions among the owner's other updates.                   *)
(***************************************************************************)
NextReject ==
    \/ NextExpired
    \/ \E t \in Slots, supported, wellformed, registered \in BOOLEAN :
           HandleUrlRejected(t, supported, wellformed, registered)
    \/ \E t \in Slots : RejectReturn(t)

SpecReject == InitExpired /\ [][NextReject]_vars

(***************************************************************************)
(* The claims.                                                             *)
(***************************************************************************)
Cancelled(id) ==
    id \in ExistingIds /\ downloads[id].error_message = "Cancelled by user"

\* C1: in every reachable state at most one Download record of the owner has
\* status "processing".
C1_AtMostOneProcessing == Cardinality(ProcessingIds) <= 1

\* C2: once a record is "completed" or "failed", no later step writes a
\* different status to it.
C2_StatusMonotone ==
    [][\A i \in ExistingIds :
           downloads[i].status \in {"completed", "failed"}
               => downloads'[i].status = downloads[i].status]_vars

\* C3: when a handler of an admitted submission returns on one of its
\* terminal paths (the except block of handle_url, or any return of
\* download_and_send_video) while the owner has no other processing record,
\* the owner's is_downloading flag is false.
C3_TerminalPcs ==
    {"except", "expired", "noimage", "failmsg", "toolarge", "relayfail",
     "donemsg", "errmsg"}

C3_FlagReleased ==
    [][\A t \in Slots :
           (/\ tasks[t].id # 0
            /\ tasks[t].pc \in C3_TerminalPcs
            /\ tasks'[t].pc = "idle"
            /\ ProcessingIds \subseteq {tasks[t].id})
               => ~user'.is_downloading]_vars

\* C4: when the fetch of a record that was cancelled by the owner returns,
\* its result is discarded: the coroutine does not go on to the upload of
\* the fetched file.
C4_CancelledFetchDiscarded ==
    [][\A t \in Slots :
           (/\ tasks[t].pc = "fetch"
            /\ Cancelled(tasks[t].id)
            /\ tasks'[t].pc # "fetch")
               => tasks'[t].pc # "fetched"]_vars

\* C5: parsing the callback_data of a quality button returns the kind, the
\* label, the format id and the download id the button was built from.
C5_RoundTrip ==
    tok.stage = "parsed" =>
        /\ tok.parsed.ok
        /\ tok.parsed.kind = <<tok.kind>>
        /\ tok.parsed.quality = tok.quality
        /\ tok.parsed.format_id = tok.format_id
        /\ tok.parsed.id = tok.id

\* The claimed choice of the transport: the relay ceiling at 2000 MiB.
C6_ClaimedRoute(size) ==
    IF SizeGT(size, <<50, 0>>)
    THEN IF SizeGT(size, <<2000, 0>>) THEN "toolarge" ELSE "relay"
    ELSE "direct"

\* C6: the transport chosen for a fetched file depends on its size only: up
\* to 50 MiB direct, above 50 MiB and up to 2000 MiB relay, above 2000 MiB
\* neither (too large).
C6_TransportBySize ==
    \A t \in Slots :
        tasks[t].via # "" => tasks[t].via = C6_ClaimedRoute(tasks[t].size)

\* C7: when download_and_send_video ends on a file above the relay ceiling,
\* the record is failed, the owner's flag is cleared and neither the media
\* file nor a sidecar of that download is left in the owner's directory.
C7_TooLargeLeavesNothing ==
    [][\A t \in Slots :
           (tasks[t].pc = "toolarge" /\ tasks'[t].pc = "idle")
               => /\ downloads'[tasks[t].id].status = "failed"
                  /\ ~user'.is_downloading
                  /\ \A f \in files' : f.id # tasks[t].id]_vars

\* A step of handle_url from its entry to its first await: the coroutine of
\* slot t leaves "idle" for the extraction or for one of the answers.
IsHandleUrlStep(t) ==
    tasks[t].pc = "idle" /\ tasks'[t].pc \in {"extract", "reply"}

C9_Reset == IsNone(user.last_quota_reset) \/ Val(user.last_quota_reset) < today'

C9_Used == IF C9_Reset THEN Some(0) ELSE user.used_quota

C9_Rejected ==
    /\ ~IsNone(C9_Used)
    /\ ~IsNone(user.daily_quota)
    /\ Val(C9_Used) >= Val(user.daily_quota)

\* C8 as claimed: handle_url called with the owner's flag set creates no
\* record, starts no extraction, leaves the flag and the records unchanged
\* and answers with a cancel button carrying the id of the owner's
\* processing record.
C8_BusyAsClaimed ==
    [][\A t \in Slots :
           (IsHandleUrlStep(t) /\ user.is_downloading)
               => /\ downloads' = downloads
                  /\ user'.is_downloading
                  /\ tasks'[t].pc = "reply"
                  /\ tasks'[t].reply = "busy"
                  /\ tasks'[t].button \in ProcessingIds]_vars

\* C8: handle_url called with the owner's flag set and the quota not
\* exhausted creates no record, starts no extraction and leaves the flag and
\* the records unchanged; its answer carries a cancel button for the most
\* recently created processing record of the owner when there is one and no
\* button otherwise.  Sent, the answer adds exactly that button to the chat;
\* if sending it raises, the except block leaves the records unchanged and
\* clears the flag exactly when the owner has no processing record then.
C8_BusyRejected ==
    [][\A t \in Slots :
           /\ (IsHandleUrlStep(t) /\ user.is_downloading /\ ~C9_Rejected)
                  => /\ downloads' = downloads
                     /\ user'.is_downloading
                     /\ tasks'[t].pc = "reply"
                     /\ tasks'[t].reply = "busy"
                     /\ tasks'[t].id = 0
                     /\ tasks'[t].button =
                            IF ProcessingIds = {} THEN 0
                            ELSE CHOOSE i \in ProcessingIds :
                                     \A j \in ProcessingIds : j <= i
           /\ (/\ tasks[t].pc = "reply"
               /\ tasks[t].reply = "busy"
               /\ tasks'[t].pc = "idle")
                  => /\ downloads' = downloads
                     /\ user' = user
                     /\ chat' = chat \cup
                            (IF tasks[t].button = 0 THEN {}
                             ELSE {Token("cancel", "", tasks[t].button)})
           /\ (/\ tasks[t].pc = "except"
               /\ tasks[t].reply = "busy"
               /\ tasks'[t].pc = "idle")
                  => /\ downloads' = downloads
                     /\ chat' = chat
                     /\ user'.is_downloading =
                            (user.is_downloading /\ ProcessingIds # {})]_vars

\* A busy answer with a cancel button is about to be sent.
C8_Witness ==
    \E t \in Slots :
        /\ tasks[t].pc = "reply"
        /\ tasks[t].reply = "busy"
        /\ tasks[t].button \in ProcessingIds
        /\ user.is_downloading

\* C9: handle_url sets used_quota to 0 and last_quota_reset to now when
\* last_quota_reset is missing or of an earlier day, before it compares; it
\* then rejects the submission as quota-exceeded, creating no record and
\* leaving is_downloading unchanged, exactly when used_quota >= daily_quota,
\* and otherwise goes on to the concurrency check.
C9_QuotaCheck ==
    [][\A t \in Slots :
           IsHandleUrlStep(t)
               => /\ user'.used_quota = C9_Used
                  /\ user'.last_quota_reset =
                         IF C9_Reset THEN Some(today')
                         ELSE user.last_quota_reset
                  /\ (tasks'[t].reply = "quota") <=> C9_Rejected
                  /\ C9_Rejected
                         => /\ downloads' = downloads
                            /\ user'.is_downloading = user.is_downloading
                            /\ tasks'[t].pc = "reply"
                  /\ ~C9_Rejected
                         => /\ (tasks'[t].reply = "busy") <=> user.is_downloading
                            /\ (tasks'[t].pc = "extract") <=> ~user.is_downloading]_vars

\* A submission was rejected as quota-exceeded on a later day's reset or on
\* a used-up quota.
C9_Witness ==
    \E t \in Slots :
        /\ tasks[t].pc = "reply"
        /\ tasks[t].reply = "quota"
        /\ Val(user.used_quota) >= Val(user.daily_quota)

\* The extraction of slot t returned a dictionary without any rendition.
C10_ZeroRenditions(t) ==
    /\ tasks[t].pc = "extract"
    /\ tasks'[t].pc = "reply"
    /\ ~IsNone(tasks'[t].vi)
    /\ \A k \in Kinds : NFormats(Val(tasks'[t].vi), k) = 0

\* C10 as claimed: an extraction that returns no rendition fails the
\* record, clears the owner's flag and issues a retry token.
C10_ZeroAsClaimed ==
    [][\A t \in Slots :
           C10_ZeroRenditions(t)
               => /\ downloads'[tasks[t].id].status = "failed"
                  /\ ~user'.is_downloading
                  /\ tasks'[t].reply = "retry"]_vars

\* C10: an extraction that returns no rendition does not fail the
\* submission: the record and the owner's flag are left as they are, no
\* retry token is issued, and once the info message is out handle_url enters
\* download_and_send_video for that record with the owner's preferred format
\* (video when none is stored) and the quality "best", which starts the
\* fetch.
C10_ZeroStartsPreferred ==
    [][\A t \in Slots :
           /\ C10_ZeroRenditions(t)
                  => /\ downloads' = downloads
                     /\ user' = user
                     /\ chat' = chat
                     /\ tasks'[t].reply = "starting"
           /\ (/\ tasks[t].pc = "reply"
               /\ tasks[t].reply = "starting"
               /\ tasks'[t].pc # "reply"
               /\ tasks'[t].pc # "except")
                  => /\ downloads' = downloads
                     /\ user' = user
                     /\ chat' = chat
                     /\ tasks'[t].pc = "fetch"
                     /\ tasks'[t].id = tasks[t].id
                     /\ tasks'[t].quality = "best"
                     /\ tasks'[t].ftype =
                            IF IsNone(user.preferred_format) THEN "video"
                            ELSE Val(user.preferred_format)]_vars

\* The fetch of a record without renditions runs in a stored preferred
\* format.
C10_Witness ==
    \E t \in Slots :
        /\ tasks[t].pc = "fetch"
        /\ tasks[t].quality = "best"
        /\ tasks[t].ftype = "audio"
        /\ downloads[tasks[t].id].status = "processing"

\* C11: pressing the Retry button issued for a URL of a supported platform
\* resubmits a URL naming the same media on the same platform, never the
\* session-expired answer and never another URL.
C11_RetryRoundTrip ==
    (tok.stage = "parsed" /\ tok.platform \in Platforms)
        => tok.url = Some(Url(tok.platform, tok.id))

\* C12: on every callback string the handler takes the branch of a known
\* stage, or answers invalid-selection, or, for a stage it does not know,
\* answers unknown-action; it never raises, a non-numeric download id
\* included, and in the error cases changes no record, flag or quota.
C12_DispatchTotal ==
    tok.stage = "handled" =>
        /\ tok.outcome # "raise"
        /\ tok.outcome \in Stages \cup {"invalid", "unknown"}
        /\ (tok.outcome = "unknown") <=> (Split(tok.data)[1] \notin
                                            {<<s>> : s \in Stages})
        /\ MainIdle


\* C13: once download_and_send_video has returned, the progress consumer it
\* started is no longer alive, whichever way the fetch phase ended.
C13_ConsumerStopped ==
    tok.hpc = "returned" => tok.cpc \in {"none", "dead"}

\* C14: the progress channel holds at most one unread value, and the value a
\* read returns, the head of the channel, is the one written last.
C14_LatestValueOnly ==
    /\ Len(tok.queue) <= 1
    /\ tok.queue # <<>> => Some(tok.queue[1]) = tok.written

\* Two values were written and none was read: the second replaced the first.
C14_Witness ==
    /\ tok.puts >= 2
    /\ tok.last_text = None /\ tok.inflight = {} /\ tok.rendered = <<>>
    /\ tok.queue = <<Val(tok.written)>>

\* C15: the values rendered on the status message never decrease.
C15_RenderedMonotone ==
    \A i, j \in 1..Len(tok.rendered) :
        i <= j => tok.rendered[i] <= tok.rendered[j]

\* Three values were written, the middle one was skipped.
C15_Witness ==
    /\ tok.puts = 3
    /\ Len(tok.rendered) = 2
    /\ tok.rendered[1] < tok.rendered[2]
    /\ tok.reported = MaxPct /\ tok.rendered[2] = MaxPct

\* C16: when download_and_send_video returns after a file was fetched
\* (delivered, relay upload or copy failed, direct send raised), no file of
\* that download is left in the owner's directory.
C16_NothingLeftAfterFetch ==
    [][\A t \in Slots :
           (/\ tasks[t].pc \in {"donemsg", "relayfail", "errmsg"}
            /\ tasks'[t].pc = "idle")
               => \A f \in files' : f.id # tasks[t].id]_vars

\* C17: cleanup_user_files never raises, changes nothing when the owner has
\* no directory or an empty one, and a second call in a row leaves the state
\* the first call left.
C17_CleanupIdempotentTotal ==
    /\ ~tok.raised
    /\ (tok.calls >= 1 /\ (~tok.given.exists \/ tok.given.entries = <<>>))
           => tok.path = tok.given
    /\ tok.calls = 2 => tok.path = tok.once

\* Two calls were made on a directory with regular files, one of them not
\* removable, and a sub-directory.
C17_Witness ==
    /\ tok.calls = 2
    /\ \A k \in EntryKinds :
           \E i \in 1..Len(tok.given.entries) : tok.given.entries[i] = k
    /\ tok.path # tok.given

\* The keyboard shown holds the Auto button unless the kind is image with a
\* single option, then one button per option in the order of the list, then
\* the Back button; field(i) is what the token of option i carries between
\* the label and the download id.
C18_Keyboard(field(_)) ==
    LET n == Len(tok.formats)
        off == IF tok.kind = "image" /\ n = 1 THEN 0 ELSE 1
        kb == tok.keyboard
    IN  /\ Len(kb) = off + n + 1
        /\ off = 1 =>
               Split(kb[1].data) =
                   <<(<<"quality">>), (<<tok.kind>>), (<<"best">>),
                     (<<"none">>), ToStr(tok.id)>>
        /\ \A i \in 1..n :
               LET fields == Split(kb[off + i].data)
                   m == Len(fields)
               IN  /\ kb[off + i].label = tok.formats[i].quality
                   /\ m >= 5
                   /\ fields[1] = <<"quality">>
                   /\ fields[2] = <<tok.kind>>
                   /\ Join(SubSeq(fields, 3, m - 1)) =
                          tok.formats[i].quality \o <<Sep>> \o field(i)
                   /\ fields[m] = ToStr(tok.id)
        /\ Split(kb[off + n + 1].data) =
               <<(<<"back">>), (<<"to">>), (<<"type">>), ToStr(tok.id)>>

\* C18: after a type selection on a non-empty list the keyboard offers one
\* button per option in catalog order, the Auto button (omitted only for an
\* image with a single option) and the Back button, and each option's token
\* carries its label, its format id and the download id.
C18_AsClaimed ==
    tok.stage = "shown" =>
        C18_Keyboard(LAMBDA i : FormatIdOf(tok.formats[i]))

\* C18, amended: the token of an image option carries, where the format id
\* of a video or audio option stands, the position in the list of the first
\* option equal to it, counted from 0.
C18_ImageCarriesIndex ==
    tok.stage = "shown" =>
        C18_Keyboard(LAMBDA i :
            IF tok.kind = "image"
            THEN ToStr((CHOOSE j \in 1..i :
                            /\ tok.formats[j] = tok.formats[i]
                            /\ \A h \in 1..(j - 1) :
                                   tok.formats[h] # tok.formats[i]) - 1)
            ELSE Val(tok.formats[i].format_id))

\* The keyboard of two different image options is shown.
C18_Witness ==
    /\ tok.stage = "shown" /\ tok.kind = "image"
    /\ Len(tok.formats) = 2 /\ tok.formats[1] # tok.formats[2]
    /\ Len(tok.keyboard) = 4

C20_ExpiredLeavesOwnerFree ==
    [][\A t \in Slots :
           (tasks[t].pc = "expired" /\ tasks'[t] # tasks[t])
               => /\ tasks'[t].pc = "idle"
                  /\ downloads' = downloads
                  /\ files' = files
                  /\ ~user'.is_downloading
                  /\ ~QuotaExceeded(user) => ~QuotaExceeded(user')]_vars

\* C21: when handle_url or download_and_send_video returns for a record it
\* did not deliver (extraction failed, image URL missing, fetch failed,
\* session expired, relay failed, an exception), the record is failed.
C21_ErrorsEndFailed ==
    [][\A t \in Slots :
           (/\ \/ tasks[t].pc \in {"expired", "noimage", "failmsg",
                                   "relayfail", "errmsg", "except"}
               \/ tasks[t].pc = "reply" /\ tasks[t].reply = "retry"
            /\ tasks'[t].pc = "idle"
            /\ tasks[t].id \in ExistingIds
            /\ downloads[tasks[t].id].status # "completed")
               => downloads'[tasks[t].id].status = "failed"]_vars

\* C22: a record becomes completed only in the step in which the transport
\* returned the delivered message, and at that step the owner's flag has
\* not been cleared yet: delivery, then completed, then the flag.
C22_DeliverCompleteRelease ==
    [][\A id \in ExistingIds :
           (/\ downloads[id].status # "completed"
            /\ downloads'[id].status = "completed")
               => /\ \E t \in Slots :
                         /\ tasks[t].id = id
                         /\ tasks[t].pc \in {"send", "copy"}
                         /\ tasks'[t].pc = "donemsg"
                  /\ user.is_downloading
                  /\ user'.is_downloading]_vars

\* C23: the test of is_downloading and its setting are one step of the event
\* loop: a handle_url call is admitted exactly when the flag it finds is
\* clear and the quota is left; admitted, it sets the flag and creates one
\* record; otherwise it creates none.  So of two calls in flight only the
\* first passes.
C23_AdmissionAtomic ==
    [][\A t \in Slots :
           IsHandleUrlStep(t) =>
               /\ tasks'[t].pc = "extract"
                      <=> (~user.is_downloading /\ ~C9_Rejected)
               /\ tasks'[t].pc = "extract" =>
                      /\ user'.is_downloading
                      /\ downloads' = Append(downloads, NewDownload)
                      /\ tasks'[t].id = Len(downloads')
               /\ tasks'[t].pc # "extract" => downloads' = downloads]_vars

\* Two handle_url calls are in flight: the first is admitted and extracts,
\* the second was rejected and is about to answer; one record exists.
C23_Witness ==
    /\ Len(downloads) = 1
    /\ \E t, u \in Slots :
           /\ tasks[t].pc = "extract" /\ tasks[t].id = 1
           /\ tasks[u].pc = "reply" /\ tasks[u].reply = "busy"
           /\ tasks[u].button = 1
    /\ user.is_downloading

\* C24: the info a type, back or quality button of a download still in
\* selection is handled with is the one extracted for that download, the
\* one kept under its own id, whatever the owner did in between.
C24_OwnCatalog ==
    \A id \in ExistingIds :
        (/\ downloads[id].status = "processing"
         /\ \E c \in chat : c.id = id /\ c.stage \in {"type", "quality", "back"}
         /\ ~IsNone(ctx[id]))
            => LookupInfo(id, redis, ctx) = ctx[id]

\* C25: one call of download_video issues at most one download request to
\* the fetch oracle; with no usable file after the first request the call
\* reports failure and starts no second fetch.
C25_OneDownloadRequest == Len(tok.requests) <= 1

\* C26: on the relay path the bytes of the file are uploaded at most once
\* per delivery; neither a failed copy nor a failure on the thumbnail leads
\* to a second upload of the bytes through either transport.
C26_BytesUploadedOnce ==
    tok.use_telethon =>
        Cardinality({i \in 1..Len(tok.sends) : tok.sends[i].bytes}) <= 1

\* C27: a thumbnail that cannot be fetched or attached never changes the
\* outcome: when the transports deliver a request without thumbnail, the
\* delivery ends with the record completed and the file delivered.
C27_ThumbnailBestEffort ==
    (tok.pc = "returned" /\ tok.world.send = "ok" /\ tok.world.copy = "ok")
        => tok.status = "completed" /\ tok.delivered

\* C28: the convert button starts an audio fetch only from a record that is
\* completed: whenever a coroutine of the convert branch is admitted or
\* enters the fetch, the record its token names has status completed.
C28_ConvertOnlyFromCompleted ==
    [][\A t \in Slots :
        (tasks'[t].pc \in {"cextract", "fetch"} /\ tasks'[t].pc # tasks[t].pc)
            => downloads[tasks'[t].id].status = "completed"]_vars

\* C29: a retry is a fresh submission: pressing a Retry button hands a URL
\* to handle_url, which then runs its quota check and admission and opens
\* a new record.
C29_RetrySubmits == tok.stage = "parsed" => ~IsNone(tok.url)

\* C30: the catalog holds at most one option per kind and quality bucket,
\* the option kept for a bucket is the highest-quality rendition of that
\* bucket (greatest height, then bitrate, for video; greatest bitrate for
\* audio), and the options of each kind are ordered highest quality first.
C30_Better(kind, a, b) ==
    IF kind = "video"
    THEN a.height > b.height \/ (a.height = b.height /\ a.tbr > b.tbr)
    ELSE a.abr > b.abr

C30_InBucket(kind, fmt, quality) ==
    IF kind = "video"
    THEN fmt.vcodec /\ fmt.height > 0 /\ VideoLabel(fmt.height) = quality
    ELSE ~fmt.vcodec /\ fmt.acodec /\ fmt.abr > 0
         /\ AudioLabel(fmt.abr) = quality

C30_Catalog(kind, options) ==
    /\ \A i, j \in 1..Len(options) :
           i # j => options[i].quality # options[j].quality
    /\ \A i \in 1..Len(options) : \A k \in 1..Len(tok.formats) :
           C30_InBucket(kind, tok.formats[k], options[i].quality)
               => ~C30_Better(kind, tok.formats[k], options[i])
    /\ \A i, j \in 1..Len(options) :
           i < j => ~C30_Better(kind, options[j], options[i])

C30_DedupedHighestFirst ==
    tok.stage = "built" =>
        /\ C30_Catalog("video", tok.video_formats)
        /\ C30_Catalog("audio", tok.audio_formats)

\* C31: when the codec flags say the source has video (audio) and no
\* discrete video (audio) rendition survived, the catalog holds exactly one
\* option of that kind, the synthesized Best; the type keyboard of a source
\* with video or audio is never empty.
C31_BestSynthesized ==
    /\ tok.stage \in {"info", "keyboard"} =>
        /\ (tok.raw.vcodec /\ tok.raw.nvideo = 0) => tok.info.video = 1
        /\ (tok.raw.acodec /\ tok.raw.naudio = 0) => tok.info.audio = 1
    /\ (tok.stage = "keyboard" /\ (tok.raw.vcodec \/ tok.raw.acodec))
           => tok.keyboard # {}

C31_Witness ==
    /\ tok.stage = "keyboard"
    /\ tok.raw.vcodec /\ tok.raw.nvideo = 0
    /\ ~tok.raw.acodec /\ tok.raw.naudio = 0
    /\ tok.keyboard = {"video"}

\* C32: the event loop is never held by a blocking call while a fetch is in
\* flight: in every state where the worker call is awaited, no coroutine is
\* inside a blocking call on the loop's thread, so an event of another user
\* can be dispatched at once.
C32_LoopNeverHeld == tok.hpc = "fetch" => tok.cpc # "get"

\* C33: at most one run of download_and_send_video is in flight per record:
\* a quality selection starts a fetch only for a record that is processing
\* and that no other coroutine is working on.
C33_OneRunPerRecord ==
    [][\A t \in Slots :
        (tasks[t].pc = "idle" /\ tasks'[t].pc = "fetch")
            => /\ downloads[tasks'[t].id].status = "processing"
               /\ \A u \in Slots \ {t} : tasks[u].id # tasks'[t].id]_vars

\* C34: owner isolation: no step of user A, whatever token of B's record A
\* presses, changes B's record, B's is_downloading flag or B's used_quota.
C34_OwnerIsolation ==
    [][AStep => (tok'.record = tok.record /\ tok'.b = tok.b)]_vars

\* C35: quota accounting: used_quota goes up by one exactly in the step that
\* ends a run which delivered a file (the run returns from its "Downloaded
\* Successfully" message), and no other step of a run changes it, whether
\* the run was started by a first selection, a repeated selection on a
\* completed record or the convert button.
C35_QuotaCountsDeliveries ==
    [][/\ \A t \in Slots :
              (tasks[t].pc = "donemsg" /\ tasks'[t].pc = "idle")
                  => user'.used_quota = IncQuota(user).used_quota
       /\ (\A t \in Slots :
              ~(tasks[t].pc = "donemsg" /\ tasks'[t].pc = "idle"))
                  => user'.used_quota = user.used_quota]_vars

\* C36: the purge at the end of one download never removes the file of
\* another, still running download of the same owner: when a run returns,
\* the fetched file of every other record whose run is between its fetch
\* and the end of its transport is still in the owner's directory.
C36_PurgeSparesOthers ==
    [][\A t \in Slots :
           (tasks[t].pc # "idle" /\ tasks'[t].pc = "idle")
               => \A u \in Slots \ {t} :
                      (/\ tasks[u].id # tasks[t].id
                       /\ tasks[u].pc \in {"fetched", "send", "upload"}
                       /\ MediaFile(u) \in files)
                          => MediaFile(u) \in files']_vars

C37_LockedHasProcessing ==
    (user.is_downloading /\ \A t \in Slots : tasks[t].pc = "idle")
        => ProcessingIds # {}

\* The way out of a set flag, step by step: a submission that finds the flag
\* set with nothing running is answered busy with the cancel button of a
\* processing record; pressing a cancel button of a processing record
\* clears the flag; a submission that finds the flag clear and quota left
\* is admitted.
C37_Unlock ==
    /\ \A t \in Slots :
           (/\ IsHandleUrlStep(t)
            /\ user.is_downloading
            /\ \A u \in Slots : tasks[u].pc = "idle")
               => /\ tasks'[t].reply = "busy"
                  /\ tasks'[t].button \in ProcessingIds
    /\ \A id \in ProcessingIds : Cancel(id) => ~user'.is_downloading
    /\ \A t \in Slots :
           (IsHandleUrlStep(t) /\ ~user.is_downloading /\ ~C9_Rejected)
               => tasks'[t].pc = "extract"

\* C37: no permanent lockout: whenever the owner's is_downloading flag is
\* set and no handler or worker of the owner is running, the owner has a
\* record in status processing, which the next submission offers to cancel;
\* and cancel, then submit is a way to an admitted submission.
C37_NoLockout == []C37_LockedHasProcessing /\ [][C37_Unlock]_vars

\* A first download was cancelled and the submission after it was admitted:
\* the flag is set again, nothing runs, and record 2 is processing.
C37_Witness ==
    /\ Len(downloads) = 2
    /\ downloads[1].error_message = "Cancelled by user"
    /\ downloads[2].status = "processing"
    /\ user.is_downloading
    /\ \A t \in Slots : tasks[t].pc = "idle"

\* A step of a handle_url call that ends rejected before admission: the
\* call itself, or the return from its answer or from its except block.
C38_RejectedStep(t) ==
    \/ /\ tasks[t].pc = "idle"
       /\ \/ tasks'[t].pc = "rejectmsg"
          \/ tasks'[t].pc = "reply" /\ tasks'[t].reply = "quota"
    \/ /\ tasks'[t] # tasks[t]
       /\ \/ tasks[t].pc = "rejectmsg"
          \/ tasks[t].pc \in {"reply", "except"} /\ tasks[t].reply = "quota"

\* C38: a submission handle_url rejects before admission (unsupported
\* platform, URL failing the basic pattern, sender not registered, quota
\* exceeded) creates no record, starts no extraction and leaves every record
\* and the is_downloading flag as they were; of the owner's row only the
\* daily quota reset is written.
C38_RejectedWritesNothing ==
    [][\A t \in Slots :
           C38_RejectedStep(t)
               => /\ downloads' = downloads
                  /\ tasks'[t].pc \notin {"extract", "fetch"}
                  /\ \A u \in Slots \ {t} : tasks'[u] = tasks[u]
                  /\ redis' = redis /\ ctx' = ctx /\ files' = files
                  /\ user'.is_downloading = user.is_downloading
                  /\ user' \in {user, QuotaReset(user, today')}
                  /\ tasks'[t].pc = "rejectmsg" => user' = user]_vars

\* Two rejected submissions are in flight beside the owner's records: one
\* rejected before the database was read, about to return, and one rejected
\* over the quota whose answer raised, in the except block.
C38_Witness ==
    /\ Len(downloads) > 0
    /\ \E t, u \in Slots :
           /\ tasks[t].pc = "rejectmsg"
           /\ tasks[u].pc = "except" /\ tasks[u].reply = "quota"
=============================================================================
